---- MODULE Spec2Model ----
(***************************************************************************)
(* HoneyShield (Dhimazz28/SecureHive): the heuristic threat scorer, the    *)
(* rate-limited remote analysis adapter (server/services/ai-analyzer.ts),  *)
(* the record store (server/storage.ts) and the HTTP handlers over them    *)
(* (server/routes.ts).                                                     *)
(*                                                                         *)
(* Strings are TLA+ strings; substring search and case folding are         *)
(* computed character by character.  Values that come from outside the     *)
(* type system (a remote JSON reply, a request body) are tagged JavaScript *)
(* values: [t |-> "undefined"], [t |-> "number", n |-> 7], [t |-> "nan"],  *)
(* [t |-> "string", s |-> "x"], [t |-> "boolean", b |-> TRUE], ...         *)
(***************************************************************************)
EXTENDS Integers, Sequences, FiniteSets, TLC

VARIABLES
    \* ---- heuristic scorer, applied to one log
    scLog,                 \* the TrafficLog handed to the scorer
    scDraw,                \* the outcomes of Math.random() while scoring it
    scReply,               \* the remote reply merged over the score, if any
    scOut,                 \* what was returned for it
    \* ---- AIAnalyzer (the shared instance aiAnalyzer)
    now,                   \* Date.now()
    ticks,                 \* how many times the clock has advanced
    useAdvancedAnalysis,   \* AIAnalyzer.useAdvancedAnalysis
    lastApiCall,           \* AIAnalyzer.lastApiCall
    inflight,              \* remote calls awaiting their reply
    timers,                \* pending setTimeout callbacks: their due times
    remoteStarts,          \* history: start times of the remote invocations
    lastQuotaError,        \* history: time of the latest 429, -1 when none
    returned,              \* the result a call has just returned, until its caller takes it
    \* ---- storage and HTTP handlers
    backend,               \* which IStorage implementation serves the routes
    trafficLogs,           \* stored TrafficLog rows, in insertion order
    attackPatterns,        \* stored AttackPattern rows, in insertion order
    currentId,             \* next id handed out by the store
    resp,                  \* the latest HTTP response, with the request it answers
    \* ---- rule-based anomaly detectors, run on one batch
    batch,                 \* the array of logs handed to the detectors
    runs,                  \* the pattern lists returned so far, one per run
    \* ---- system metrics and the background timers
    systemMetrics,         \* stored SystemMetrics rows
    metricsCalls,          \* the updateSystemMetrics callers and where each one is
    metricsClock,          \* new Date() of the metrics updates
    running,               \* per timer and step, the ticks now at that step
    failed,                \* history: the timers one of whose ticks has thrown
    alive,                 \* the process has not died of an unhandled rejection
    \* ---- the process environment and the other records of the store
    env,                   \* process.env, read when ai-analyzer.ts is loaded
    datasetStats,          \* stored DatasetStats rows
    aiAnalysisResults,     \* stored AIAnalysisResult rows, in insertion order
    users,                 \* stored User rows, in insertion order
    retraining,            \* the POST /api/retrain-model requests being handled
    routine                \* where initializeMockData or the log tick now running is

scorerVars == <<scLog, scDraw, scReply, scOut>>
analyzerVars == <<now, ticks, useAdvancedAnalysis, lastApiCall, inflight, timers,
                  remoteStarts, lastQuotaError, returned>>
storeVars == <<backend, trafficLogs, attackPatterns, currentId, resp>>
detectorVars == <<batch, runs>>
metricsVars == <<systemMetrics, metricsCalls, metricsClock>>
timerVars == <<running, failed, alive>>
recordVars == <<env, datasetStats, aiAnalysisResults, users, retraining, routine>>
backgroundVars == <<metricsVars, timerVars, recordVars>>
vars == <<scLog, scDraw, scReply, scOut, now, ticks, useAdvancedAnalysis, lastApiCall, inflight, timers,
          remoteStarts, lastQuotaError, returned,
          backend, trafficLogs, attackPatterns, currentId, resp,
          batch, runs,
          systemMetrics, metricsCalls, metricsClock, running, failed, alive,
          env, datasetStats, aiAnalysisResults, users, retraining, routine>>

(***************************************************************************)
(* Strings                                                                 *)
(***************************************************************************)

\* String.prototype.includes
Includes(s, sub) ==
    \E i \in 0..(Len(s) - Len(sub)) : SubSeq(s, i + 1, i + Len(sub)) = sub

UpperChars == "ABCDEFGHIJKLMNOPQRSTUVWXYZ"
LowerChars == "abcdefghijklmnopqrstuvwxyz"

LowerChar(c) ==
    IF \E i \in 1..Len(UpperChars) : SubSeq(UpperChars, i, i) = c
    THEN LET i == CHOOSE j \in 1..Len(UpperChars) : SubSeq(UpperChars, j, j) = c
         IN  SubSeq(LowerChars, i, i)
    ELSE c

\* String.prototype.toLowerCase (ASCII)
RECURSIVE ToLowerCase(_)
ToLowerCase(s) ==
    IF Len(s) = 0 THEN ""
    ELSE LowerChar(SubSeq(s, 1, 1)) \o ToLowerCase(SubSeq(s, 2, Len(s)))

(***************************************************************************)
(* JavaScript values                                                       *)
(***************************************************************************)

Undefined == [t |-> "undefined"]
Null == [t |-> "null"]
NaN == [t |-> "nan"]
Num(n) == [t |-> "number", n |-> n]
Str(s) == [t |-> "string", s |-> s]
Bool(b) == [t |-> "boolean", b |-> b]
Arr(a) == [t |-> "array", a |-> a]

\* ToBoolean
Truthy(v) ==
    CASE v.t = "undefined" -> FALSE
      [] v.t = "null" -> FALSE
      [] v.t = "nan" -> FALSE
      [] v.t = "number" -> v.n # 0
      [] v.t = "string" -> v.s # ""
      [] v.t = "boolean" -> v.b
      [] OTHER -> TRUE

\* a || b
OrElse(a, b) == IF Truthy(a) THEN a ELSE b

DigitChars == "0123456789"

IsDigit(c) == \E d \in 1..Len(DigitChars) : SubSeq(DigitChars, d, d) = c

DigitValue(c) ==
    (CHOOSE d \in 1..Len(DigitChars) : SubSeq(DigitChars, d, d) = c) - 1

\* the length of the longest prefix of s made of decimal digits
RECURSIVE DigitPrefixLen(_)
DigitPrefixLen(s) ==
    IF Len(s) = 0 \/ ~IsDigit(SubSeq(s, 1, 1)) THEN 0
    ELSE 1 + DigitPrefixLen(SubSeq(s, 2, Len(s)))

\* the value of a string of decimal digits
RECURSIVE DigitsValue(_)
DigitsValue(s) ==
    IF Len(s) = 0 THEN 0
    ELSE 10 * DigitsValue(SubSeq(s, 1, Len(s) - 1))
         + DigitValue(SubSeq(s, Len(s), Len(s)))

\* StringToNumber on unsigned decimal integer literals: the literal's value,
\* 0 for the empty string, NaN for a string with any other character
StringToNumber(s) ==
    IF DigitPrefixLen(s) = Len(s) THEN Num(DigitsValue(s)) ELSE NaN

\* ToNumber
ToNumber(v) ==
    CASE v.t = "undefined" -> NaN
      [] v.t = "null" -> Num(0)
      [] v.t = "nan" -> NaN
      [] v.t = "number" -> v
      [] v.t = "string" -> StringToNumber(v.s)
      [] v.t = "boolean" -> IF v.b THEN Num(1) ELSE Num(0)
      [] v.t = "array" -> IF Len(v.a) = 0 THEN Num(0) ELSE NaN
      [] OTHER -> NaN

\* Math.min(a, b) and Math.max(a, b): either argument NaN gives NaN
MathMin(a, b) ==
    LET x == ToNumber(a)
        y == ToNumber(b)
    IN  IF x = NaN \/ y = NaN THEN NaN
        ELSE IF x.n <= y.n THEN x ELSE y

MathMax(a, b) ==
    LET x == ToNumber(a)
        y == ToNumber(b)
    IN  IF x = NaN \/ y = NaN THEN NaN
        ELSE IF x.n >= y.n THEN x ELSE y

Min(a, b) == IF a <= b THEN a ELSE b
Max(a, b) == IF a >= b THEN a ELSE b

(***************************************************************************)
(* Heuristic threat scorer                                                 *)
(*                                                                         *)
(* A TrafficLog is a record; payload and userAgent are nullable and held   *)
(* as tagged values (Null or Str), the other columns are NOT NULL.         *)
(***************************************************************************)

PayloadAsSent(log) ==
    IF log.payload = Null THEN "" ELSE log.payload.s

SeverityWeightHighOnly(log) == IF log.severity = "high" THEN 4 ELSE 0

\* log.payload?.toLowerCase() || ''
PayloadLower(log) ==
    IF log.payload = Null THEN "" ELSE ToLowerCase(log.payload.s)

\* log.userAgent?.toLowerCase() || ''
UserAgentLower(log) ==
    IF log.userAgent = Null THEN "" ELSE ToLowerCase(log.userAgent.s)

HighRiskCountries == {"CN", "RU", "KP"}

SeverityWeight(log) ==
    IF log.severity = "high" THEN 4
    ELSE IF log.severity = "medium" THEN 2 ELSE 0

AttackTypeWeight(log) ==
    IF Includes(log.attackType, "SQL Injection") THEN 3
    ELSE IF Includes(log.attackType, "Command Injection") THEN 4
    ELSE IF Includes(log.attackType, "XSS") THEN 2
    ELSE IF Includes(log.attackType, "Brute Force") THEN 2
    ELSE IF Includes(log.attackType, "DDoS") THEN 3 ELSE 0

PayloadWeight(log) ==
    LET payload == PayloadLower(log)
    IN  (IF Includes(payload, "drop table") THEN 2 ELSE 0)
      + (IF Includes(payload, "exec") \/ Includes(payload, "system") THEN 3 ELSE 0)
      + (IF Includes(payload, "script") THEN 1 ELSE 0)

TargetWeight(log) ==
      (IF Includes(log.target, "admin") \/ Includes(log.target, "config") THEN 2 ELSE 0)
    + (IF Includes(log.target, "database") \/ Includes(log.target, "backup") THEN 2 ELSE 0)

CountryWeight(log) == IF log.country \in HighRiskCountries THEN 1 ELSE 0

\* the score before the final clamp
RawRiskScore(log) ==
    1 + SeverityWeight(log) + AttackTypeWeight(log) + PayloadWeight(log)
      + TargetWeight(log) + CountryWeight(log)

calculateEnhancedRiskScoreUnclamped(log) == RawRiskScore(log)

calculateEnhancedRiskScore(log) == Min(10, RawRiskScore(log))

RawConfidence(log) ==
    LET payload == PayloadLower(log)
    IN  70
      + (IF log.payload # Null /\ log.payload.s # "" /\ Len(log.payload.s) > 10
         THEN 10 ELSE 0)
      + (IF Includes(payload, "union select") \/ Includes(payload, "<script>")
         THEN 15 ELSE 0)
      + (IF Includes(log.target, "admin") \/ Includes(log.target, "login")
         THEN 10 ELSE 0)

calculateConfidence(log) == Min(95, RawConfidence(log))

identifyTechnique(log) ==
    LET payload == PayloadLower(log)
        userAgent == UserAgentLower(log)
    IN  IF Includes(log.attackType, "SQL") THEN
            IF Includes(payload, "union") THEN "Union-based SQL Injection"
            ELSE IF Includes(payload, "sleep") \/ Includes(payload, "waitfor")
                 THEN "Time-based Blind SQL Injection"
            ELSE IF Includes(payload, "and") \/ Includes(payload, "or")
                 THEN "Boolean-based Blind SQL Injection"
            ELSE IF Includes(payload, "into outfile") THEN "File-based SQL Injection"
            ELSE "Classic SQL Injection"
        ELSE IF Includes(log.attackType, "XSS") THEN
            IF Includes(payload, "document.") THEN "DOM-based XSS"
            ELSE IF Includes(payload, "onload") \/ Includes(payload, "onerror")
                 THEN "Event-based XSS"
            ELSE IF Includes(payload, "javascript:") THEN "JavaScript Protocol XSS"
            ELSE "Reflected XSS"
        ELSE IF Includes(log.attackType, "Brute") THEN
            IF Includes(userAgent, "curl") \/ Includes(userAgent, "python")
                 THEN "Automated Brute Force"
            ELSE IF log.country # "" /\ log.country \in {"CN", "RU"}
                 THEN "Distributed Brute Force"
            ELSE "Dictionary-based Brute Force"
        ELSE IF Includes(log.attackType, "DDoS") THEN
            IF log.method = "GET" THEN "HTTP GET Flood"
            ELSE IF log.method = "POST" THEN "HTTP POST Flood"
            ELSE "Layer 7 DDoS Attack"
        ELSE IF Includes(log.attackType, "Directory") THEN
            IF Includes(payload, "..\\") THEN "Windows Path Traversal"
            ELSE IF Includes(payload, "../") THEN "Unix Path Traversal"
            ELSE "Directory Traversal Attack"
        ELSE "Advanced Persistent Threat"

getEnhancedRecommendations(log) ==
    LET attack ==
            IF Includes(log.attackType, "SQL Injection") THEN
                << "Implement parameterized queries and prepared statements",
                   "Enable SQL injection protection in WAF",
                   "Conduct regular security code reviews",
                   "Implement least privilege database access" >>
            ELSE IF Includes(log.attackType, "XSS") THEN
                << "Implement Content Security Policy (CSP)",
                   "Sanitize and validate all user inputs",
                   "Use XSS protection headers",
                   "Encode output data properly" >>
            ELSE IF Includes(log.attackType, "Brute Force") THEN
                << "Implement rate limiting and account lockout",
                   "Enable multi-factor authentication",
                   "Use CAPTCHA for repeated attempts",
                   "Monitor for suspicious login patterns" >>
            ELSE IF Includes(log.attackType, "DDoS") THEN
                << "Deploy DDoS protection service",
                   "Implement traffic rate limiting",
                   "Configure load balancing",
                   "Set up automatic scaling" >>
            ELSE << >>
        geo ==
            IF log.country \in HighRiskCountries THEN
                << "Consider geo-blocking for high-risk countries",
                   "Implement enhanced monitoring for this region" >>
            ELSE << >>
    IN  attack \o geo \o
        << "Update security monitoring rules",
           "Review and update firewall configurations",
           "Conduct threat hunting exercises" >>

\* rnd: the outcome of Math.random() > 0.85
detectNewPattern(log, rnd) ==
    LET payload == PayloadLower(log)
        userAgent == UserAgentLower(log)
    IN  IF Includes(payload, "%u") \/ Includes(payload, "&#x") THEN TRUE
        ELSE IF Includes(userAgent, "bot") /\ ~Includes(userAgent, "googlebot") THEN TRUE
        ELSE IF Includes(log.target, ".env") \/ Includes(log.target, ".git") THEN TRUE
        ELSE IF Includes(payload, "${") /\ Includes(payload, "}") THEN TRUE
        ELSE rnd

PatternNames ==
    << "Advanced SQL Injection Variant", "Encoded XSS Attack Pattern",
       "Hybrid Brute Force Campaign", "Polymorphic Script Injection",
       "Zero-Day Exploit Attempt", "AI-Evading Attack Vector",
       "Multi-Stage Payload Delivery", "Obfuscated Command Injection" >>

\* pick: the outcome of Math.floor(Math.random() * patterns.length), from 1
generatePatternName(log, pick) == PatternNames[pick]

generatePatternDescription(log) ==
    "Novel attack pattern detected from " \o log.sourceIP \o " targeting "
        \o log.target
        \o ". Uses advanced techniques to bypass traditional security measures with confidence indicators suggesting coordinated attack campaign."

\* the heuristic AttackAnalysis of one log
performEnhancedAnalysis(log, rnd, pick) ==
    LET isNew == detectNewPattern(log, rnd)
    IN  [ attackType |-> Str(log.attackType),
          technique |-> Str(identifyTechnique(log)),
          riskScore |-> Num(calculateEnhancedRiskScore(log)),
          recommendations |-> Arr(getEnhancedRecommendations(log)),
          confidence |-> Num(calculateConfidence(log)),
          isNewPattern |-> Bool(isNew),
          patternName |-> IF isNew THEN Str(generatePatternName(log, pick))
                                   ELSE Undefined,
          patternDescription |-> IF isNew THEN Str(generatePatternDescription(log))
                                          ELSE Undefined ]

(***************************************************************************)
(* Rule-based anomaly detection over a batch of logs                       *)
(***************************************************************************)

Range(s) == {s[i] : i \in 1..Len(s)}

\* the elements of s, each once, in the order of their first occurrence
\* (the key order of a Map filled while walking s)
RECURSIVE FirstOccurrences(_)
FirstOccurrences(s) ==
    IF s = << >> THEN << >>
    ELSE LET r == FirstOccurrences(SubSeq(s, 1, Len(s) - 1))
             x == s[Len(s)]
         IN  IF x \in Range(r) THEN r ELSE Append(r, x)

\* Map<sourceIP, TrafficLog[]> as a sequence of [ip, logs] in key order
groupByIP(logs) ==
    LET ips == FirstOccurrences([i \in 1..Len(logs) |-> logs[i].sourceIP])
    IN  [k \in 1..Len(ips) |->
            [ip |-> ips[k],
             logs |-> SelectSeq(logs, LAMBDA l : l.sourceIP = ips[k])]]

MinTimestamp(logs) ==
    CHOOSE t \in {logs[i].timestamp : i \in 1..Len(logs)} :
        \A i \in 1..Len(logs) : t <= logs[i].timestamp

MaxTimestamp(logs) ==
    CHOOSE t \in {logs[i].timestamp : i \in 1..Len(logs)} :
        \A i \in 1..Len(logs) : t >= logs[i].timestamp

CoordinatedPattern(group) ==
    LET attackTypes == {group.logs[i].attackType : i \in 1..Len(group.logs)}
    IN  [ name |-> Str("Multi-Vector Coordinated Attack"),
          description |-> Str("Coordinated attack from " \o group.ip \o " using "
                              \o ToString(Cardinality(attackTypes))
                              \o " different attack vectors within short timeframe"),
          confidence |-> Num(85),
          occurrences |-> Num(Len(group.logs)),
          firstSeen |-> MinTimestamp(group.logs),
          lastSeen |-> MaxTimestamp(group.logs),
          technique |-> Str("Multi-stage attack coordination"),
          riskScore |-> Num(8),
          status |-> Str("new"),
          aiGenerated |-> Bool(TRUE) ]

IsCoordinatedBySize(group) == Len(group.logs) >= 3

IsCoordinated(group) ==
    /\ Len(group.logs) >= 3
    /\ Cardinality({group.logs[i].attackType : i \in 1..Len(group.logs)}) >= 2

detectCoordinatedAttacks(ipGroups) ==
    LET hits == SelectSeq(ipGroups, IsCoordinated)
    IN  [k \in 1..Len(hits) |-> CoordinatedPattern(hits[k])]

\* Array.prototype.sort with (a, b) => a.timestamp - b.timestamp: stable,
\* ascending by timestamp
RECURSIVE SortByTimestampAsc(_)
SortByTimestampAsc(logs) ==
    IF logs = << >> THEN << >>
    ELSE LET sorted == SortByTimestampAsc(SubSeq(logs, 1, Len(logs) - 1))
             x == logs[Len(logs)]
             k == Cardinality({i \in 1..Len(sorted) : sorted[i].timestamp <= x.timestamp})
         IN  SubSeq(sorted, 1, k) \o << x >> \o SubSeq(sorted, k + 1, Len(sorted))

SequencePattern(current, next) ==
    [ name |-> Str("Reconnaissance-to-Exploitation Sequence"),
      description |-> Str("Attack sequence from " \o current.sourceIP
                          \o ": reconnaissance phase followed by SQL injection"),
      confidence |-> Num(80),
      occurrences |-> Num(2),
      firstSeen |-> current.timestamp,
      lastSeen |-> next.timestamp,
      technique |-> Str("Multi-stage attack progression"),
      riskScore |-> Num(9),
      status |-> Str("new"),
      aiGenerated |-> Bool(TRUE) ]

IsReconThenExploitAnyAddress(current, next) ==
    /\ Includes(current.attackType, "Directory")
    /\ Includes(next.attackType, "SQL")

IsReconThenExploit(current, next) ==
    /\ current.sourceIP = next.sourceIP
    /\ Includes(current.attackType, "Directory")
    /\ Includes(next.attackType, "SQL")

\* the findings of detectAttackSequences; the array it is given is sorted
\* in place (see SortByTimestampAsc), which is what its caller sees afterwards
detectAttackSequences(logs) ==
    LET sortedLogs == SortByTimestampAsc(logs)
        idx == [i \in 1..(Len(sortedLogs) - 1) |-> i]
        hits == SelectSeq(idx, LAMBDA i :
                    IsReconThenExploit(sortedLogs[i], sortedLogs[i + 1]))
    IN  [k \in 1..Len(hits) |->
            SequencePattern(sortedLogs[hits[k]], sortedLogs[hits[k] + 1])]

ExpectedCountries == {"CN", "RU", "US"}

CountryCount(logs, country) ==
    Cardinality({i \in 1..Len(logs) : logs[i].country = country})

GeographicPattern(country, count, at) ==
    [ name |-> Str("Geographic Attack Concentration"),
      description |-> Str("Unusual concentration of attacks from " \o country
                          \o " (" \o ToString(count) \o " attempts)"),
      confidence |-> Num(75),
      occurrences |-> Num(count),
      firstSeen |-> at,
      lastSeen |-> at,
      technique |-> Str("Geographic attack clustering"),
      riskScore |-> Num(6),
      status |-> Str("new"),
      aiGenerated |-> Bool(TRUE) ]

\* at: new Date()
detectGeographicAnomalies(logs, at) ==
    LET countries == FirstOccurrences([i \in 1..Len(logs) |-> logs[i].country])
        hits == SelectSeq(countries, LAMBDA c :
                    CountryCount(logs, c) >= 5 /\ c \notin ExpectedCountries)
    IN  [k \in 1..Len(hits) |->
            GeographicPattern(hits[k], CountryCount(logs, hits[k]), at)]

IsEncodedPayload(p) ==
    Includes(p, "%u") \/ Includes(p, "&#x") \/ Includes(p, "base64")

IsPolyglotPayload(p) ==
    \/ Includes(p, "script") /\ Includes(p, "union")
    \/ Includes(p, "alert") /\ Includes(p, "drop")

detectPayloadAnomalies(logs, at) ==
    LET all == [i \in 1..Len(logs) |-> PayloadLower(logs[i])]
        payloads == SelectSeq(all, LAMBDA p : Len(p) > 0)
        encodedPayloads == SelectSeq(payloads, IsEncodedPayload)
        polyglotPayloads == SelectSeq(payloads, IsPolyglotPayload)
        encoded ==
            IF Len(encodedPayloads) >= 2 THEN
                << [ name |-> Str("Encoded Payload Attack Pattern"),
                     description |-> Str("Multiple attacks using encoded payloads to evade detection ("
                                         \o ToString(Len(encodedPayloads)) \o " instances)"),
                     confidence |-> Num(85),
                     occurrences |-> Num(Len(encodedPayloads)),
                     firstSeen |-> at,
                     lastSeen |-> at,
                     technique |-> Str("Payload encoding evasion"),
                     riskScore |-> Num(7),
                     status |-> Str("new"),
                     aiGenerated |-> Bool(TRUE) ] >>
            ELSE << >>
        polyglot ==
            IF Len(polyglotPayloads) >= 1 THEN
                << [ name |-> Str("Polyglot Attack Vector"),
                     description |-> Str("Attacks using polyglot payloads targeting multiple vulnerabilities simultaneously"),
                     confidence |-> Num(90),
                     occurrences |-> Num(Len(polyglotPayloads)),
                     firstSeen |-> at,
                     lastSeen |-> at,
                     technique |-> Str("Multi-vulnerability exploitation"),
                     riskScore |-> Num(9),
                     status |-> Str("new"),
                     aiGenerated |-> Bool(TRUE) ] >>
            ELSE << >>
    IN  encoded \o polyglot

\* the four detectors in the order the code runs them; the geographic and
\* payload detectors run after detectAttackSequences has sorted the array
performRuleBasedAnomalyDetection(logs, at) ==
    LET ipGroups == groupByIP(logs)
        coordinatedAttacks == detectCoordinatedAttacks(ipGroups)
        sequenceAnomalies == detectAttackSequences(logs)
        sortedLogs == SortByTimestampAsc(logs)
        geoAnomalies == detectGeographicAnomalies(sortedLogs, at)
        payloadAnomalies == detectPayloadAnomalies(sortedLogs, at)
    IN  coordinatedAttacks \o sequenceAnomalies \o geoAnomalies \o payloadAnomalies

(***************************************************************************)
(* AIAnalyzer: the remote adapter with its rate limiter and cooldown       *)
(***************************************************************************)

apiCallDelay == 2000
cooldownDelay == 300000

\* at most MaxCalls remote requests are sent and the clock advances at most
\* MaxTicks times; calls that send no request are not limited
MaxCalls == 2
MaxTicks == 4

\* the clock advances by half the call delay or by the cooldown less half the
\* call delay, so that gaps just below and exactly at both thresholds occur
TickSteps == {apiCallDelay \div 2, cooldownDelay - apiCallDelay \div 2}

NoCall == [ path |-> "none" ]

\* ---- inputs of the analyzer in this model

AnalyzerLogs ==
    { [ sourceIP |-> "10.0.0.1", country |-> "RU", attackType |-> "SQL Injection",
        target |-> "/admin/login.php", severity |-> "high",
        payload |-> Str("' OR '1'='1"), userAgent |-> Str("curl/7.68.0"),
        method |-> "POST", timestamp |-> 10 ] }

\* the outcomes of Math.random() in performEnhancedAnalysis: whether the 15%
\* branch of detectNewPattern fires, and the index generatePatternName draws
RandomDraws == { <<FALSE, 1>>, <<TRUE, 5>> }

BatchLog(ip, type, ts, payload) ==
    [ sourceIP |-> ip, country |-> "BR", attackType |-> type, target |-> "/login",
      severity |-> "medium", payload |-> payload, userAgent |-> Null,
      method |-> "GET", timestamp |-> ts ]

AnalyzerBatches ==
    { << >>,
      << BatchLog("10.0.0.1", "SQL Injection", 30, Str("UNION SELECT <script>")),
         BatchLog("10.0.0.1", "Directory Traversal", 20, Str("../../../etc/passwd")),
         BatchLog("10.0.0.1", "XSS Attempt", 10, Null) >> }

\* ---- what the remote service can answer

EmptyAnalysisReply ==
    [ attackType |-> Undefined, technique |-> Undefined, riskScore |-> Undefined,
      recommendations |-> Undefined, confidence |-> Undefined,
      isNewPattern |-> Undefined, patternName |-> Undefined,
      patternDescription |-> Undefined ]

AnalysisReplies ==
    { [ attackType |-> Str("Blind SQLi"), technique |-> Str("Boolean inference"),
        riskScore |-> Num(7), recommendations |-> Arr(<< "Patch the login form" >>),
        confidence |-> Num(88), isNewPattern |-> Bool(TRUE),
        patternName |-> Str("Login probe"), patternDescription |-> Str("Probing") ] }

EmptyAnomaly ==
    [ name |-> Undefined, description |-> Undefined, confidence |-> Undefined,
      occurrences |-> Undefined, technique |-> Undefined, riskScore |-> Undefined ]

AnomalyReplies ==
    { [ anomalies |-> Arr(<< [ EmptyAnomaly EXCEPT !.name = Str("Slow scan"),
                                                  !.confidence = Num(91),
                                                  !.riskScore = Num(5),
                                                  !.occurrences = Num(4) ],
                             EmptyAnomaly >>) ],
      [ anomalies |-> Str("none") ] }

\* errors the remote call or the handling of its reply can raise
NetworkError == [ name |-> "APIConnectionError", status |-> Undefined ]
ServerError == [ name |-> "InternalServerError", status |-> Num(500) ]
RateLimitError == [ name |-> "RateLimitError", status |-> Num(429) ]
SyntaxError == [ name |-> "SyntaxError", status |-> Undefined ]
TypeError == [ name |-> "TypeError", status |-> Undefined ]

\* a settled remote request: rejected with an error, or fulfilled with a
\* message whose content is JSON text (json, with the object it parses to) or not
Rejected(e) == [ rejected |-> TRUE, error |-> e ]
Fulfilled(obj) == [ rejected |-> FALSE, json |-> TRUE, obj |-> obj ]
NotJson == [ rejected |-> FALSE, json |-> FALSE ]

RemoteOutcomes(kind) ==
    { Rejected(e) : e \in { NetworkError, ServerError, RateLimitError } }
    \cup { NotJson }
    \cup { Fulfilled(o) : o \in IF kind = "analyze" THEN AnalysisReplies
                                                    ELSE AnomalyReplies }

\* ---- the rate limiter

canMakeApiCallNoDelay(t, last) == TRUE

\* canMakeApiCall's answer at time t with lastApiCall = last
canMakeApiCall(t, last) == ~(t - last < apiCallDelay)

\* ---- merging a reply over the fallback

performAIAnalysis(analysis, fallback) ==
    [ attackType |-> OrElse(analysis.attackType, fallback.attackType),
      technique |-> OrElse(analysis.technique, fallback.technique),
      riskScore |-> MathMax(Num(1), MathMin(Num(10),
                        OrElse(analysis.riskScore, fallback.riskScore))),
      recommendations |-> IF analysis.recommendations.t = "array"
                          THEN analysis.recommendations
                          ELSE fallback.recommendations,
      confidence |-> MathMax(Num(0), MathMin(Num(100),
                        OrElse(analysis.confidence, fallback.confidence))),
      isNewPattern |-> OrElse(Bool(Truthy(analysis.isNewPattern)),
                              fallback.isNewPattern),
      patternName |-> OrElse(analysis.patternName, fallback.patternName),
      patternDescription |-> OrElse(analysis.patternDescription,
                                    fallback.patternDescription) ]

\* one element of result.anomalies mapped to an InsertAttackPattern
AIAnomaly(anomaly, at) ==
    [ name |-> OrElse(anomaly.name, Str("AI-Detected Anomaly")),
      description |-> OrElse(anomaly.description,
                             Str("Advanced anomaly detected by AI analysis")),
      confidence |-> MathMax(Num(0), MathMin(Num(100),
                        OrElse(anomaly.confidence, Num(75)))),
      occurrences |-> OrElse(anomaly.occurrences, Num(1)),
      firstSeen |-> at,
      lastSeen |-> at,
      technique |-> OrElse(anomaly.technique, Str("Unknown AI-detected technique")),
      riskScore |-> MathMax(Num(1), MathMin(Num(10),
                        OrElse(anomaly.riskScore, Num(7)))),
      status |-> Str("new"),
      aiGenerated |-> Bool(TRUE) ]

\* result.anomalies || []
AnomaliesOf(result) == OrElse(result.anomalies, Arr(<< >>))

performAIAnomalyDetectionReplacing(result, fallback, at) ==
    LET anomalies == AnomaliesOf(result).a
    IN  [k \in 1..Len(anomalies) |-> AIAnomaly(anomalies[k], at)]

performAIAnomalyDetection(result, fallback, at) ==
    LET anomalies == AnomaliesOf(result).a
    IN  fallback \o [k \in 1..Len(anomalies) |-> AIAnomaly(anomalies[k], at)]

\* the try block: what awaiting the remote call and handling its reply gives
TryRemote(call, outcome, at) ==
    IF outcome.rejected THEN [ threw |-> TRUE, error |-> outcome.error ]
    ELSE IF ~outcome.json THEN [ threw |-> TRUE, error |-> SyntaxError ]
    ELSE IF call.kind = "analyze"
         THEN [ threw |-> FALSE,
                value |-> performAIAnalysis(outcome.obj, call.fallback) ]
    ELSE IF AnomaliesOf(outcome.obj).t # "array"
         THEN [ threw |-> TRUE, error |-> TypeError ]
    ELSE [ threw |-> FALSE,
           value |-> performAIAnomalyDetection(outcome.obj, call.fallback, at) ]

RethrowUnlessQuota(error, fallback) ==
    IF error.status = Num(429) THEN [ threw |-> FALSE, value |-> fallback ]
    ELSE [ threw |-> TRUE, value |-> error ]

\* the catch block and the statement after it: the error is logged and the
\* rule-based result computed before the call is returned
CatchAndFallBack(error, fallback) == [ threw |-> FALSE, value |-> fallback ]

\* ---- state of the components while another one is being exercised

NoLog == [ sourceIP |-> "" ]
NoOut == [ done |-> FALSE ]
NoResponse == [ code |-> 0 ]

NoReply == [ none |-> TRUE ]

ScorerIdle ==
    /\ scLog = NoLog
    /\ scDraw = << FALSE, 1 >>
    /\ scReply = NoReply
    /\ scOut = NoOut

\* the analyzer as constructed.  Date.now() is far above apiCallDelay when
\* the process starts, so the first call always passes the rate limiter;
\* the model's clock starts at the smallest value with that property
AnalyzerInit ==
    /\ now = apiCallDelay
    /\ ticks = 0
    /\ useAdvancedAnalysis = TRUE
    /\ lastApiCall = 0
    /\ inflight = {}
    /\ timers = {}
    /\ remoteStarts = << >>
    /\ lastQuotaError = -1
    /\ returned = NoCall

StoreIdle ==
    /\ backend = "db"
    /\ trafficLogs = << >>
    /\ attackPatterns = << >>
    /\ currentId = 1
    /\ resp = NoResponse

DetectorIdle ==
    /\ batch = << >>
    /\ runs = << >>

\* ---- the callers of updateSystemMetrics and the three timers

\* log ticks that may be inside their metrics update at once
MaxOverlap == 2
\* log ticks that reach their metrics update
MaxUpdates == 3
\* ticks of one timer that may be running at once
MaxRunning == 1

\* initializeMockData and the overlapping ticks of the log timer
Callers == { "init" } \cup { ToString(i) : i \in 1..MaxOverlap }

\* an InsertSystemMetrics without id, and a caller that is not in a call
NoId == 0
NoMetrics == [ id |-> NoId, attacksToday |-> 0, lastUpdated |-> -1 ]
NotCalling == [ pc |-> "idle", insertMetrics |-> NoMetrics, existing |-> NoMetrics ]

\* the setInterval callbacks of startRealTimeDataGeneration
Intervals == { "log", "pattern", "anomaly" }

\* where a tick can be: entering its callback, or awaiting one of its calls
Steps ==
    [ log |-> << "callback", "createTrafficLog", "analyzeTrafficLog",
                 "createAIAnalysisResult", "getSystemMetrics",
                 "updateSystemMetrics" >>,
      pattern |-> << "callback", "createAttackPattern" >>,
      anomaly |-> << "callback", "getTrafficLogs", "detectAnomalies",
                     "createAttackPattern" >> ]

Positions ==
    UNION { { << t, Steps[t][i] >> : i \in 1..Len(Steps[t]) } : t \in Intervals }

MetricsIdle ==
    /\ systemMetrics = << >>
    /\ metricsCalls = [ c \in Callers |-> NotCalling ]
    /\ metricsClock = 0

TimersIdle ==
    /\ running = [ pos \in Positions |-> 0 ]
    /\ failed = {}
    /\ alive = TRUE

\* process.env with and without a key for the remote service
NoEnv == [ OPENAI_API_KEY |-> Undefined, OPENAI_API_KEY_ENV_VAR |-> Undefined ]
KeyedEnv == [ NoEnv EXCEPT !.OPENAI_API_KEY = Str("sk-configured") ]

\* retrain requests that may be handled at once
MaxRequests == 2
Requests == 1..MaxRequests

\* no DatasetStats, and a request slot that handles no request
NoStats == [ id |-> NoId, modelAccuracy |-> 0, lastRetraining |-> -1 ]
NotRetraining == [ pc |-> "idle", currentStats |-> NoStats, insertStats |-> NoStats ]

\* no start-up and no log tick is running; restarts counts the process starts
\* after the first
NotRunning == [ pc |-> "idle", i |-> 0, logs |-> << >>, createdLog |-> NoId,
                restarts |-> 0 ]

RecordsIdle ==
    /\ routine = NotRunning
    /\ env = KeyedEnv
    /\ datasetStats = << >>
    /\ aiAnalysisResults = << >>
    /\ users = << >>
    /\ retraining = [ r \in Requests |-> NotRetraining ]

BackgroundIdle == MetricsIdle /\ TimersIdle /\ RecordsIdle

\* ---- actions of the analyzer

\* the values the clock can take: after the ticks, and after waiting for
\* the cooldown timers of the remote calls
ClockValues ==
    { apiCallDelay + a * (apiCallDelay \div 2)
                   + b * (cooldownDelay - apiCallDelay \div 2) :
        a \in 0..(MaxTicks + MaxCalls), b \in 0..(MaxTicks + MaxCalls) }

\* performRuleBasedAnomalyDetection on the inputs of this model
RuleBasedAnomaliesOf ==
    [ logs \in AnalyzerBatches, at \in ClockValues |->
        performRuleBasedAnomalyDetection(logs, at) ]

\* performEnhancedAnalysis on the inputs of this model
EnhancedAnalysisOf ==
    [ log \in AnalyzerLogs, draw \in RandomDraws |->
        performEnhancedAnalysis(log, draw[1], draw[2]) ]

\* time passes
Tick(d) ==
    /\ returned = NoCall
    /\ ticks < MaxTicks
    /\ now' = now + d
    /\ ticks' = ticks + 1
    /\ UNCHANGED <<useAdvancedAnalysis, lastApiCall, inflight, timers,
                   remoteStarts, lastQuotaError, returned>>

\* the part of a call that runs before it first awaits: the rule-based result
\* is computed, the gate is consulted, and the remote request is sent or the
\* rule-based result returned
Enter(call) ==
    /\ returned = NoCall
    /\ IF useAdvancedAnalysis /\ canMakeApiCall(now, lastApiCall)
       THEN /\ Len(remoteStarts) < MaxCalls
            /\ lastApiCall' = now
            /\ inflight' = inflight \cup { call }
            /\ remoteStarts' = Append(remoteStarts,
                   [ at |-> now, gap |-> call.gap,
                     lastQuotaError |-> lastQuotaError ])
            /\ UNCHANGED returned
       ELSE /\ returned' = [ call |-> call, path |-> "skipped",
                             threw |-> FALSE, value |-> call.fallback ]
            /\ UNCHANGED <<lastApiCall, inflight, remoteStarts>>
    /\ UNCHANGED <<now, ticks, useAdvancedAnalysis, timers, lastQuotaError>>

analyzeTrafficLog(log, draw) ==
    Enter([ kind |-> "analyze", input |-> log,
            rnd |-> draw[1], pick |-> draw[2], at |-> now,
            gap |-> now - lastApiCall,
            fallback |-> EnhancedAnalysisOf[log, draw] ])

detectAnomaliesWithoutEarlyReturn(logs) ==
    Enter([ kind |-> "anomalies", input |-> logs,
            at |-> now, gap |-> now - lastApiCall,
            fallback |-> RuleBasedAnomaliesOf[logs, now] ])

detectAnomalies(logs) ==
    IF Len(logs) = 0
    THEN /\ returned = NoCall
         /\ returned' = [ call |-> [ kind |-> "anomalies", input |-> logs,
                                     at |-> now, gap |-> now - lastApiCall ],
                          path |-> "empty", threw |-> FALSE, value |-> << >> ]
         /\ UNCHANGED <<now, ticks, useAdvancedAnalysis, lastApiCall, inflight,
                        timers, remoteStarts, lastQuotaError>>
    ELSE Enter([ kind |-> "anomalies", input |-> logs,
                 at |-> now, gap |-> now - lastApiCall,
                 fallback |-> RuleBasedAnomaliesOf[logs, now] ])

\* setTimeout(() => { this.useAdvancedAnalysis = true; }, 300000)
setTimeoutDropped(pending, at) == pending

setTimeout(pending, at) == pending \cup { at + cooldownDelay }

\* the remote request of an in-flight call settles and the call returns
Settle(call, outcome) ==
    LET try == TryRemote(call, outcome, now)
        result == IF try.threw THEN CatchAndFallBack(try.error, call.fallback)
                  ELSE try
        quota == try.threw /\ try.error.status = Num(429)
    IN  /\ returned = NoCall
        /\ call \in inflight
        /\ inflight' = inflight \ { call }
        /\ returned' = [ call |-> call,
                         path |-> IF try.threw THEN "failed" ELSE "remote",
                         outcome |-> outcome,
                         threw |-> result.threw, value |-> result.value ]
        /\ IF quota
           THEN /\ useAdvancedAnalysis' = FALSE
                /\ timers' = setTimeout(timers, now)
                /\ lastQuotaError' = now
           ELSE UNCHANGED <<useAdvancedAnalysis, timers, lastQuotaError>>
        /\ UNCHANGED <<now, ticks, lastApiCall, remoteStarts>>

\* a setTimeout callback set by a quota error runs, not before it is due.
\* Two callbacks due at the same instant have the effect of one.
TimerFires(due) ==
    /\ returned = NoCall
    /\ due \in timers
    /\ now >= due
    /\ useAdvancedAnalysis' = TRUE
    /\ timers' = timers \ { due }
    /\ UNCHANGED <<now, ticks, lastApiCall, inflight, remoteStarts,
                   lastQuotaError, returned>>

\* the caller takes the result of the call that has just returned.  A result
\* stays in `returned` for exactly one state, so that it can be inspected;
\* nothing else of the analyzer depends on it.
Deliver ==
    /\ returned # NoCall
    /\ returned' = NoCall
    /\ UNCHANGED <<now, ticks, useAdvancedAnalysis, lastApiCall, inflight, timers,
                   remoteStarts, lastQuotaError>>

Init == ScorerIdle /\ AnalyzerInit /\ StoreIdle /\ DetectorIdle /\ BackgroundIdle

OthersIdle == UNCHANGED <<scorerVars, storeVars, detectorVars, backgroundVars>>

Next ==
    \/ \E d \in TickSteps : Tick(d) /\ OthersIdle
    \/ \E log \in AnalyzerLogs, draw \in RandomDraws :
         analyzeTrafficLog(log, draw) /\ OthersIdle
    \/ \E logs \in AnalyzerBatches : detectAnomalies(logs) /\ OthersIdle
    \/ \E call \in inflight : \E outcome \in RemoteOutcomes(call.kind) :
         Settle(call, outcome) /\ OthersIdle
    \/ \E due \in timers : TimerFires(due) /\ OthersIdle
    \/ Deliver /\ OthersIdle

\* the analyzer under calls, replies, failures and timers in any order
Spec == Init /\ [][Next]_vars

\* the process waits until a pending cooldown timer is due, and its callback
\* runs
TimerDue(due) ==
    /\ returned = NoCall
    /\ due \in timers
    /\ now' = IF now < due THEN due ELSE now
    /\ useAdvancedAnalysis' = TRUE
    /\ timers' = timers \ { due }
    /\ UNCHANGED <<ticks, lastApiCall, inflight, remoteStarts,
                   lastQuotaError, returned>>

\* between calls time passes in steps of half the rate-limit delay; the
\* cooldowns themselves are waited for in TimerDue
NextCooldown ==
    \/ Tick(apiCallDelay \div 2) /\ OthersIdle
    \/ \E log \in AnalyzerLogs, draw \in RandomDraws :
         analyzeTrafficLog(log, draw) /\ OthersIdle
    \/ \E logs \in AnalyzerBatches : detectAnomalies(logs) /\ OthersIdle
    \/ \E call \in inflight : \E outcome \in RemoteOutcomes(call.kind) :
         Settle(call, outcome) /\ OthersIdle
    \/ \E due \in timers : TimerDue(due) /\ OthersIdle
    \/ Deliver /\ OthersIdle

\* the analyzer in a process that keeps running: results are taken by their
\* callers, and a pending timer's callback runs however many calls are made
\* in the meantime
SpecCooldown ==
    /\ Init
    /\ [][NextCooldown]_vars
    /\ WF_vars(Deliver /\ OthersIdle)
    /\ SF_vars((\E due \in timers : TimerDue(due)) /\ OthersIdle)

\* new OpenAI({ apiKey: ... }): the key the remote client is built with
ApiKey(e) ==
    OrElse(OrElse(e.OPENAI_API_KEY, e.OPENAI_API_KEY_ENV_VAR), Str("default_key"))

\* environments in which no key is configured
KeylessEnvs == { NoEnv, [ NoEnv EXCEPT !.OPENAI_API_KEY = Str("") ] }

\* the same analyzer in a process started without a key
InitNoKey ==
    /\ ScorerIdle /\ AnalyzerInit /\ StoreIdle /\ DetectorIdle
    /\ MetricsIdle /\ TimersIdle
    /\ env \in KeylessEnvs
    /\ datasetStats = << >>
    /\ aiAnalysisResults = << >>
    /\ users = << >>
    /\ retraining = [ r \in Requests |-> NotRetraining ]
    /\ routine = NotRunning

SpecNoKey == InitNoKey /\ [][Next]_vars

(***************************************************************************)
(* Properties of the analyzer                                              *)
(***************************************************************************)

\* the rule-based result of a call, from its input, the random draws made
\* for it and the time it was made
HeuristicOf(call) ==
    IF call.kind = "analyze"
    THEN EnhancedAnalysisOf[call.input, << call.rnd, call.pick >>]
    ELSE IF Len(call.input) = 0 THEN << >>
    ELSE RuleBasedAnomaliesOf[call.input, call.at]

\* C1: any two remote invocations start at least apiCallDelay apart, and a
\* call attempted less than apiCallDelay after the previous remote attempt
\* sends no remote request and returns the rule-based result for its input,
\* so that of two calls closer than the delay at most the first reaches the
\* remote service and both return.
C1_RateLimit ==
    /\ \A i, j \in 1..Len(remoteStarts) :
           i < j => remoteStarts[j].at - remoteStarts[i].at >= apiCallDelay
    /\ \A i \in 1..Len(remoteStarts) : remoteStarts[i].gap >= apiCallDelay
    /\ \A call \in inflight : call.gap >= apiCallDelay
    /\ (returned # NoCall /\ returned.call.gap < apiCallDelay) =>
           /\ returned.path \in { "skipped", "empty" }
           /\ ~returned.threw
           /\ returned.value = HeuristicOf(returned.call)

\* a second call arrives less than the delay after a call that went to the
\* remote service, while remote calls are enabled, and returns
C1_Witness ==
    /\ returned # NoCall
    /\ returned.path = "skipped"
    /\ useAdvancedAnalysis
    /\ Len(remoteStarts) = 1
    /\ returned.call.gap < apiCallDelay
    /\ returned.call.gap = now - remoteStarts[1].at

\* C2: after a remote call fails with status 429 no remote call starts during
\* the following cooldownDelay ms, and remote calls are re-enabled only after
\* that window, also when several calls in flight fail with 429 at
\* different times.
C2_Cooldown ==
    /\ (lastQuotaError # -1 /\ now - lastQuotaError < cooldownDelay)
           => ~useAdvancedAnalysis
    /\ \A i \in 1..Len(remoteStarts) :
           remoteStarts[i].lastQuotaError # -1 =>
               remoteStarts[i].at - remoteStarts[i].lastQuotaError >= cooldownDelay

\* C3: whichever way the remote call fails (connection error, a status other
\* than 429, status 429, a reply that is not JSON), the call does not raise
\* and returns exactly the rule-based result for its input.
C3_FailureFallsBack ==
    (returned # NoCall /\ returned.path = "failed") =>
        /\ ~returned.threw
        /\ returned.value = HeuristicOf(returned.call)

\* an anomaly detection over a non-empty batch whose reply was not JSON
C3_Witness ==
    /\ returned # NoCall
    /\ returned.path = "failed"
    /\ returned.call.kind = "anomalies"
    /\ returned.outcome = NotJson
    /\ Len(returned.value) > 0

\* C14: when the remote anomaly call succeeds, the list detectAnomalies
\* returns is the whole rule-based list in its order followed by one
\* pattern per anomaly of the reply, in the reply's order.
C14_RemoteAppended ==
    (/\ returned # NoCall
     /\ returned.path = "remote"
     /\ returned.call.kind = "anomalies") =>
        LET ruleBased == HeuristicOf(returned.call)
            remote == returned.outcome.obj.anomalies.a
            value == returned.value
        IN  /\ Len(value) = Len(ruleBased) + Len(remote)
            /\ SubSeq(value, 1, Len(ruleBased)) = ruleBased
            /\ \A k \in 1..Len(remote) :
                 LET p == value[Len(ruleBased) + k]
                 IN  /\ p.name = IF remote[k].name.t = "string"
                                 THEN remote[k].name
                                 ELSE Str("AI-Detected Anomaly")
                     /\ p.status = Str("new")
                     /\ p.firstSeen >= returned.call.at

\* a successful remote anomaly call with rule-based findings and two
\* anomalies in the reply
C14_Witness ==
    /\ returned # NoCall
    /\ returned.path = "remote"
    /\ returned.call.kind = "anomalies"
    /\ Len(HeuristicOf(returned.call)) > 0
    /\ Len(returned.outcome.obj.anomalies.a) = 2
    /\ Len(returned.value) = Len(HeuristicOf(returned.call)) + 2

\* C23: whenever remote calls are disabled they are enabled again later, and
\* a remote call that failed is not sent again: the step in which a call
\* fails starts no remote call, and neither does the callback of a timer.
C23_CooldownEnds ==
    /\ (~useAdvancedAnalysis) ~> useAdvancedAnalysis
    /\ [][(returned' # NoCall /\ returned # returned' /\ returned'.path = "failed") =>
             /\ remoteStarts' = remoteStarts
             /\ inflight' = inflight \ { returned'.call }]_vars
    /\ [][timers' # timers /\ timers' \subseteq timers =>
             remoteStarts' = remoteStarts /\ inflight' = inflight]_vars

\* remote calls are enabled again after two rate-limit errors
C23_Witness ==
    /\ useAdvancedAnalysis
    /\ timers = {}
    /\ Len(remoteStarts) = 2
    /\ lastQuotaError > remoteStarts[2].lastQuotaError
    /\ remoteStarts[2].lastQuotaError # -1

\* C21: in a process started without a key for the remote service no remote
\* call is ever started, and every call returns the rule-based result for
\* its input.
C21_NoKeyNoRemote ==
    (~Truthy(env.OPENAI_API_KEY) /\ ~Truthy(env.OPENAI_API_KEY_ENV_VAR)) =>
        /\ remoteStarts = << >>
        /\ inflight = {}
        /\ returned # NoCall => returned.value = HeuristicOf(returned.call)

\* C30: detectAnomalies called with an empty batch returns the empty list in
\* the step of the call, a remote call is never started for an empty batch,
\* and the step leaves lastApiCall, the enabled flag, the pending timers and
\* the calls in flight as they were.
C30_EmptyBatch ==
    /\ [](\A call \in inflight : call.kind = "anomalies" => Len(call.input) > 0)
    /\ [][ (/\ returned' # NoCall
            /\ returned' # returned
            /\ returned'.call.kind = "anomalies"
            /\ Len(returned'.call.input) = 0) =>
               /\ returned = NoCall
               /\ returned'.value = << >>
               /\ ~returned'.threw
               /\ lastApiCall' = lastApiCall
               /\ useAdvancedAnalysis' = useAdvancedAnalysis
               /\ remoteStarts' = remoteStarts
               /\ inflight' = inflight
               /\ timers' = timers ]_vars

\* an empty batch was answered while the gate was open: remote calls enabled
\* and the last remote call at least apiCallDelay ago
C30_Witness ==
    /\ returned # NoCall
    /\ returned.call.kind = "anomalies"
    /\ Len(returned.call.input) = 0
    /\ returned.value = << >>
    /\ useAdvancedAnalysis
    /\ Len(remoteStarts) = 1
    /\ lastApiCall > 0
    /\ canMakeApiCall(now, lastApiCall)

(***************************************************************************)
(* The scorer and the merge of a remote reply, applied to one input        *)
(***************************************************************************)

\* the value pools of MockDataGenerator.generateTrafficLog, with empty and
\* boundary values added
ScorerSeverities == { "high", "medium", "low", "" }

ScorerAttackTypes ==
    { "SQL Injection", "XSS Attempt", "Brute Force", "DDoS Attack",
      "Directory Traversal", "Command Injection", "Cross-Site Request Forgery",
      "Authentication Bypass", "Buffer Overflow", "Code Injection", "" }

ScorerTargets ==
    { "/admin/login.php", "/config.php", "/database.php", "/search?q=",
      "/admin/config/database/backup", "" }

ScorerCountries == { "RU", "US", "" }

ScorerPayloads ==
    { Null, Str(""),
      Str("' OR '1'='1"),
      Str("<script>alert(\"XSS\")</script>"),
      Str("../../../etc/passwd"),
      Str("admin' --"),
      Str("UNION SELECT * FROM users--"),
      Str("<img src=x onerror=alert(1)>"),
      Str("; DROP TABLE users; --"),
      Str("; DROP TABLE users; EXEC system('<script>') UNION SELECT 1"),
      Str("' OR 1=1 UNION SELECT SLEEP(5)--") }

ScorerUserAgents == { Null, Str("python-requests/2.25.1") }

ScorerLogs ==
    { [ sourceIP |-> "10.0.0.1", country |-> c, attackType |-> a, target |-> g,
        severity |-> v, payload |-> p, userAgent |-> u, method |-> "GET",
        timestamp |-> 10 ] :
        c \in ScorerCountries, a \in ScorerAttackTypes, g \in ScorerTargets,
        v \in ScorerSeverities, p \in ScorerPayloads, u \in ScorerUserAgents }

\* performEnhancedAnalysis applied to scLog
ScoreLog ==
    /\ scOut = NoOut
    /\ scOut' = [ done |-> TRUE, merged |-> FALSE,
                  heuristic |-> performEnhancedAnalysis(scLog, scDraw[1], scDraw[2]) ]
    /\ UNCHANGED <<scLog, scDraw, scReply>>

InitScorer ==
    /\ scLog \in ScorerLogs
    /\ scDraw \in RandomDraws
    /\ scReply = NoReply
    /\ scOut = NoOut
    /\ AnalyzerInit
    /\ StoreIdle
    /\ DetectorIdle
    /\ BackgroundIdle

NextScorer == ScoreLog /\ UNCHANGED <<analyzerVars, storeVars, detectorVars, backgroundVars>>

\* the heuristic scorer on every log of ScorerLogs
SpecScorer == InitScorer /\ [][NextScorer]_vars

\* ---- replies to merge: each field missing, of the right type in and out of
\* range, or of another type

ReplyNumbers ==
    { Undefined, Null, Num(0), Num(-3), Num(7), Num(15), Num(250),
      Str("7"), Str("high"), Bool(TRUE) }

ReplyStrings == { Undefined, Str(""), Str("Blind SQLi"), Num(123) }

ReplyBooleans == { Undefined, Bool(FALSE), Bool(TRUE), Str("false") }

ReplyArrays == { Undefined, Arr(<< "Patch the login form" >>), Str("none") }

MergeReplies ==
    { [ attackType |-> a, technique |-> Undefined, riskScore |-> r,
        recommendations |-> c, confidence |-> f, isNewPattern |-> n,
        patternName |-> Undefined, patternDescription |-> Undefined ] :
        a \in ReplyStrings, r \in ReplyNumbers, c \in ReplyArrays,
        f \in ReplyNumbers, n \in ReplyBooleans }
    \cup
    { [ EmptyAnalysisReply EXCEPT !.technique = t, !.patternName = t,
                                  !.patternDescription = t ] :
        t \in ReplyStrings }

\* performAIAnalysis after a successful remote call: scReply is the parsed
\* reply, the heuristic result of scLog the fallback
MergeReply ==
    /\ scOut # NoOut
    /\ ~scOut.merged
    /\ scOut' = [ done |-> TRUE, merged |-> TRUE, heuristic |-> scOut.heuristic,
                  analysis |-> performAIAnalysis(scReply, scOut.heuristic) ]
    /\ UNCHANGED <<scLog, scDraw, scReply>>

InitMerge ==
    /\ scLog \in AnalyzerLogs
    /\ scDraw \in RandomDraws
    /\ scReply \in MergeReplies
    /\ scOut = NoOut
    /\ AnalyzerInit
    /\ StoreIdle
    /\ DetectorIdle
    /\ BackgroundIdle

NextMerge ==
    \/ ScoreLog /\ UNCHANGED <<analyzerVars, storeVars, detectorVars, backgroundVars>>
    \/ MergeReply /\ UNCHANGED <<analyzerVars, storeVars, detectorVars, backgroundVars>>

\* the merge of every reply of MergeReplies over a heuristic result
SpecMerge == InitMerge /\ [][NextMerge]_vars

IsNumberIn(v, lo, hi) == v.t = "number" /\ lo <= v.n /\ v.n <= hi

\* C4: whatever a successful reply carries in riskScore and confidence, the
\* analysis returned has riskScore a number in 1..10 and confidence a number
\* in 0..100.
C4_MergedInRange ==
    (scOut # NoOut /\ scOut.merged) =>
        /\ IsNumberIn(scOut.analysis.riskScore, 1, 10)
        /\ IsNumberIn(scOut.analysis.confidence, 0, 100)

AnalysisFields ==
    { "attackType", "technique", "riskScore", "confidence", "recommendations",
      "isNewPattern", "patternName", "patternDescription" }

\* C5: after a successful remote call every field the reply omits or sends
\* with the wrong type has the fallback's value, and every field sent with
\* the right type has the remote value, clamped to 1..10 (riskScore) or
\* 0..100 (confidence) when numeric.
C5_MergedFieldByField ==
    LET FieldType(f) ==
            CASE f \in { "riskScore", "confidence" } -> "number"
              [] f = "recommendations" -> "array"
              [] f = "isNewPattern" -> "boolean"
              [] OTHER -> "string"
        Clamp(v, lo, hi) == Num(Max(lo, Min(hi, v.n)))
        ExpectedField(f, reply, fallback) ==
            IF reply[f].t # FieldType(f) THEN fallback[f]
            ELSE IF f = "riskScore" THEN Clamp(reply[f], 1, 10)
            ELSE IF f = "confidence" THEN Clamp(reply[f], 0, 100)
            ELSE reply[f]
    IN  (scOut # NoOut /\ scOut.merged) =>
            \A f \in AnalysisFields :
                scOut.analysis[f] = ExpectedField(f, scReply, scOut.heuristic)

\* C6: for every log, whatever its severity, attack type, target, country,
\* payload and user agent (the last two possibly null or empty), the scorer
\* returns a riskScore in 1..10 and a confidence in 0..100.
C6_ScoreInRange ==
    scOut # NoOut =>
        /\ IsNumberIn(scOut.heuristic.riskScore, 1, 10)
        /\ IsNumberIn(scOut.heuristic.confidence, 0, 100)

\* C15: the heuristic riskScore is min(10, 1 + severity weight (high 4,
\* medium 2) + category weight (SQL Injection 3, Command Injection 4, XSS 2,
\* Brute Force 2, DDoS 3) + payload bonuses ('drop table' 2, 'exec' or
\* 'system' 3, 'script' 1) + target bonuses ('admin' or 'config' 2,
\* 'database' or 'backup' 2) + 1 for a source country CN, RU or KP).
C15_RiskScoreFormula ==
    scOut # NoOut =>
        LET text == IF scLog.payload = Null THEN ""
                    ELSE ToLowerCase(scLog.payload.s)
            Has(str, word) == Includes(str, word)
            Bonus(cond, points) == IF cond THEN points ELSE 0
            severity == CASE scLog.severity = "high" -> 4
                          [] scLog.severity = "medium" -> 2
                          [] OTHER -> 0
            category == CASE scLog.attackType = "SQL Injection" -> 3
                          [] scLog.attackType = "Command Injection" -> 4
                          [] scLog.attackType = "XSS Attempt" -> 2
                          [] scLog.attackType = "Brute Force" -> 2
                          [] scLog.attackType = "DDoS Attack" -> 3
                          [] OTHER -> 0
            payload == Bonus(Has(text, "drop table"), 2)
                     + Bonus(Has(text, "exec") \/ Has(text, "system"), 3)
                     + Bonus(Has(text, "script"), 1)
            target == Bonus(Has(scLog.target, "admin") \/ Has(scLog.target, "config"), 2)
                    + Bonus(Has(scLog.target, "database") \/ Has(scLog.target, "backup"), 2)
            country == Bonus(scLog.country \in { "CN", "RU", "KP" }, 1)
            sum == 1 + severity + category + payload + target + country
        IN  scOut.heuristic.riskScore = Num(IF sum > 10 THEN 10 ELSE sum)

\* the scored log of severity high, type Command Injection, payload with
\* 'drop table' and 'exec', target with 'admin', country RU: riskScore 10
C15_Witness ==
    /\ scOut # NoOut
    /\ scLog.severity = "high"
    /\ scLog.attackType = "Command Injection"
    /\ scLog.payload # Null
    /\ Includes(ToLowerCase(scLog.payload.s), "drop table")
    /\ Includes(ToLowerCase(scLog.payload.s), "exec")
    /\ Includes(scLog.target, "admin")
    /\ scLog.country = "RU"
    /\ scOut.heuristic.riskScore = Num(10)

\* C16: the technique's category is the first of SQL, XSS, Brute, DDoS,
\* Directory contained in attackType, 'Advanced Persistent Threat' when
\* none is; for SQL the lower-cased payload is tested for 'union', then
\* 'sleep' or 'waitfor', then 'and' or 'or'.
C16_TechniqueOrder ==
    scOut # NoOut =>
        LET text == IF scLog.payload = Null THEN ""
                    ELSE ToLowerCase(scLog.payload.s)
            technique == scOut.heuristic.technique.s
            categories == << "SQL", "XSS", "Brute", "DDoS", "Directory" >>
            matching == { k \in 1..Len(categories) :
                            Includes(scLog.attackType, categories[k]) }
            first == CHOOSE k \in matching : \A j \in matching : k <= j
            labels ==
              << { "Union-based SQL Injection", "Time-based Blind SQL Injection",
                   "Boolean-based Blind SQL Injection", "File-based SQL Injection",
                   "Classic SQL Injection" },
                 { "DOM-based XSS", "Event-based XSS", "JavaScript Protocol XSS",
                   "Reflected XSS" },
                 { "Automated Brute Force", "Distributed Brute Force",
                   "Dictionary-based Brute Force" },
                 { "HTTP GET Flood", "HTTP POST Flood", "Layer 7 DDoS Attack" },
                 { "Windows Path Traversal", "Unix Path Traversal",
                   "Directory Traversal Attack" } >>
        IN  IF matching = {} THEN technique = "Advanced Persistent Threat"
            ELSE /\ technique \in labels[first]
                 /\ first = 1 =>
                      IF Includes(text, "union")
                      THEN technique = "Union-based SQL Injection"
                      ELSE IF Includes(text, "sleep") \/ Includes(text, "waitfor")
                      THEN technique = "Time-based Blind SQL Injection"
                      ELSE IF Includes(text, "and") \/ Includes(text, "or")
                      THEN technique = "Boolean-based Blind SQL Injection"
                      ELSE technique \in { "File-based SQL Injection",
                                           "Classic SQL Injection" }

\* the payload ' OR '1'='1 with attackType SQL Injection, resolved to
\* Boolean-based Blind SQL Injection
C16_Witness ==
    /\ scOut # NoOut
    /\ scLog.attackType = "SQL Injection"
    /\ scLog.payload = Str("' OR '1'='1")
    /\ scOut.heuristic.technique = Str("Boolean-based Blind SQL Injection")

\* a scored log with null payload and user agent, and a scored log whose
\* weights add up to more than 10
C6_Witness ==
    /\ scOut # NoOut
    /\ RawRiskScore(scLog) > 10
    /\ scOut.heuristic.riskScore = Num(10)
    /\ scLog.userAgent = Null

Backends == { "mem", "db" }

\* parseInt(s): the leading decimal digits of s, NaN when there are none
parseInt(s) ==
    IF DigitPrefixLen(s) = 0 THEN NaN
    ELSE Num(DigitsValue(SubSeq(s, 1, DigitPrefixLen(s))))

\* a - b, a * b and Math.ceil(a / b) on numbers, NaN propagating; b > 0 in
\* the division
Minus(a, b) == IF a = NaN \/ b = NaN THEN NaN ELSE Num(a.n - b.n)
Times(a, b) == IF a = NaN \/ b = NaN THEN NaN ELSE Num(a.n * b.n)
CeilDiv(a, b) ==
    IF a = NaN \/ b = NaN THEN NaN ELSE Num((a.n + b.n - 1) \div b.n)

\* Array.prototype.slice(start, end) and slice(start)
SliceIndex(i, len) == IF i < 0 THEN Max(len + i, 0) ELSE Min(i, len)
Slice(a, start, end) ==
    SubSeq(a, SliceIndex(start, Len(a)) + 1, SliceIndex(end, Len(a)))
SliceFrom(a, start) == Slice(a, start, Len(a))

Reverse(a) == [ i \in 1..Len(a) |-> a[Len(a) + 1 - i] ]

\* logs.sort((a, b) => b.timestamp - a.timestamp): stable, newest first
RECURSIVE SortByTimestampDesc(_)
SortByTimestampDesc(logs) ==
    IF Len(logs) = 0 THEN << >>
    ELSE LET newest == CHOOSE i \in 1..Len(logs) :
                         /\ \A j \in 1..Len(logs) :
                              logs[j].timestamp <= logs[i].timestamp
                         /\ \A j \in 1..(i - 1) :
                              logs[j].timestamp < logs[i].timestamp
             rest == [ j \in 1..(Len(logs) - 1) |->
                         IF j < newest THEN logs[j] ELSE logs[j + 1] ]
         IN  << logs[newest] >> \o SortByTimestampDesc(rest)

\* typeMap of getTrafficLogs: the filter's alias to the attack type it names
TypeAliases == { "sql", "xss", "brute", "ddos" }
typeMap(alias) ==
    CASE alias = "sql" -> "SQL Injection"
      [] alias = "xss" -> "XSS"
      [] alias = "brute" -> "Brute Force"
      [] alias = "ddos" -> "DDoS"

\* the three filters of getTrafficLogs and getTrafficLogCount on one log
MatchesSeverity(log, filters) ==
    (Truthy(filters.severity) /\ filters.severity # Str("all"))
        => log.severity = filters.severity.s

MatchesAttackType(log, filters) ==
    (/\ Truthy(filters.attackType)
     /\ filters.attackType # Str("all")
     /\ filters.attackType.s \in TypeAliases)
        => Includes(log.attackType, typeMap(filters.attackType.s))

MatchesIpAddress(log, filters) ==
    Truthy(filters.ipAddress) => Includes(log.sourceIP, filters.ipAddress.s)

MatchesFilters(log, filters) ==
    /\ MatchesSeverity(log, filters)
    /\ MatchesAttackType(log, filters)
    /\ MatchesIpAddress(log, filters)

\* MemStorage.getTrafficLogs
MemGetTrafficLogs(logs, filters) ==
    LET matching == SelectSeq(logs, LAMBDA log : MatchesFilters(log, filters))
        sorted == SortByTimestampDesc(matching)
        skipped == IF Truthy(filters.offset)
                   THEN SliceFrom(sorted, filters.offset.n) ELSE sorted
    IN  IF Truthy(filters.limit)
        THEN Slice(skipped, 0, filters.limit.n) ELSE skipped

\* MemStorage.getTrafficLogCount: the length of getTrafficLogs(filters)
MemGetTrafficLogCount(logs, filters) ==
    Num(Len(MemGetTrafficLogs(logs, filters)))

\* DatabaseStorage.getTrafficLogs: ORDER BY timestamp DESC leaves the order
\* of rows with equal timestamps to the database; tie selects between the
\* insertion order and its reverse
TieOrders == { "insertion", "reverse" }
DbGetTrafficLogs(logs, filters, tie) ==
    LET matching == SelectSeq(logs, LAMBDA log : MatchesFilters(log, filters))
        ordered == SortByTimestampDesc(IF tie = "insertion" THEN matching
                                       ELSE Reverse(matching))
        first == IF Truthy(filters.offset) THEN filters.offset.n ELSE 0
    IN  IF Truthy(filters.limit)
        THEN Slice(ordered, first, first + filters.limit.n)
        ELSE SliceFrom(ordered, first)

\* DatabaseStorage.getTrafficLogCount: count(*) under the three filters
DbGetTrafficLogCount(logs, filters) ==
    Num(Len(SelectSeq(logs, LAMBDA log : MatchesFilters(log, filters))))

\* createTrafficLog: MemStorage takes the id from the counter shared by all
\* its maps, DatabaseStorage from the table's serial
NextLogId == IF backend = "mem" THEN currentId ELSE Len(trafficLogs) + 1
NextPatternIdPerCollection == Len(attackPatterns) + 1
NextPatternId == IF backend = "mem" THEN currentId ELSE Len(attackPatterns) + 1

\* updateAttackPatternStatus(id, status), the same in both backends: the
\* pattern of that id with its status replaced, or undefined
HasPattern(patterns, id) ==
    id # NaN /\ \E i \in 1..Len(patterns) : patterns[i].id = id.n

updateAttackPatternStatusEverywhere(patterns, id, status) ==
    IF HasPattern(patterns, id)
    THEN LET i == CHOOSE j \in 1..Len(patterns) : patterns[j].id = id.n
         IN  [ patterns |-> [ j \in 1..Len(patterns) |->
                                [ patterns[j] EXCEPT !.status = status ] ],
               result |-> [ patterns[i] EXCEPT !.status = status ] ]
    ELSE [ patterns |-> patterns, result |-> Undefined ]

updateAttackPatternStatus(patterns, id, status) ==
    IF HasPattern(patterns, id)
    THEN LET i == CHOOSE j \in 1..Len(patterns) : patterns[j].id = id.n
             updatedPattern == [ patterns[i] EXCEPT !.status = status ]
         IN  [ patterns |-> [ patterns EXCEPT ![i] = updatedPattern ],
               result |-> updatedPattern ]
    ELSE [ patterns |-> patterns, result |-> Undefined ]

\* if (!status) of PATCH /api/attack-patterns/:id
StatusNeverMissing(status) == FALSE
StatusMissing(status) == ~Truthy(status)

\* ---- bounds and inputs of the storage model

MaxPatterns == 2
SeedLogs == 23
MaxLogs == 25

PatchRoute == "PATCH /api/attack-patterns/:id"
LogsRoute == "GET /api/traffic-logs"

\* statuses MockDataGenerator.generateAttackPattern and the anomaly
\* detectors give to a new pattern
CreatedStatuses == { "new", "under_review" }

\* Math.floor(Math.random() * 30) + 70 and Math.floor(Math.random() * 4) + 6
\* at the ends of their ranges
PatternDraws ==
    { [ status |-> status, confidence |-> d[1], riskScore |-> d[2] ] :
        status \in CreatedStatuses, d \in { << 70, 6 >>, << 99, 9 >> } }

\* req.params.id and req.body.status of the PATCH requests
PatchIds == { ToString(i) : i \in 1..(MaxPatterns + 1) }

PatchStatuses ==
    { Undefined, Null, Str(""), Str("new"), Str("under_review"),
      Str("confirmed"), Str("added_to_dataset"), Str("archived") }

\* the i-th log of initializeMockData's loop; equal timestamps occur
SeedIPs == << "10.0.0.1", "10.0.0.2", "192.168.1.7" >>
SeedTypes == << "SQL Injection", "XSS Attempt", "Brute Force", "DDoS Attack",
                "Directory Traversal" >>
SeedSeverities == << "high", "medium", "low", "high" >>
SeedVariants == { 0, 1 }

SeedLog(i, variant) ==
    [ id |-> i,
      sourceIP |-> SeedIPs[((i + variant) % 3) + 1],
      country |-> "RU",
      attackType |-> SeedTypes[((i + 2 * variant) % 5) + 1],
      target |-> "/admin/login.php",
      severity |-> SeedSeverities[(i % 4) + 1],
      payload |-> Null,
      userAgent |-> Null,
      method |-> "GET",
      timestamp |-> (7 * i + variant) % 11 ]

\* logs given to createTrafficLog once the server runs
CreatedLogs ==
    { [ sourceIP |-> "10.0.0.2", country |-> "CN", attackType |-> "SQL Injection",
        target |-> "/config.php", severity |-> "high", payload |-> Undefined,
        userAgent |-> Str("curl/7.68.0"), method |-> "POST", timestamp |-> 100 ],
      [ sourceIP |-> "172.16.0.9", country |-> "US", attackType |-> "XSS Attempt",
        target |-> "/search?q=", severity |-> "low",
        payload |-> Str("<script>alert(\"XSS\")</script>"),
        userAgent |-> Undefined, method |-> "GET", timestamp |-> 5 ] }

\* req.query of the GET requests
LogQueries ==
    [ severity : { Undefined, Str("all"), Str("high") },
      attackType : { Undefined, Str("sql"), Str("SQL Injection") },
      ipAddress : { Undefined, Str("10.0") },
      page : { Undefined, Str("2"), Str("3"), Str("x") },
      limit : { Undefined, Str("1"), Str("7") } ]

\* insertLog.payload ?? null
OrNull(v) == IF v = Undefined \/ v = Null THEN Null ELSE v

\* ---- actions of the storage model

createTrafficLog(insertLog) ==
    /\ resp = NoResponse
    /\ Len(trafficLogs) < MaxLogs
    /\ trafficLogs' = Append(trafficLogs,
            [ id |-> NextLogId,
              sourceIP |-> insertLog.sourceIP,
              country |-> insertLog.country,
              attackType |-> insertLog.attackType,
              target |-> insertLog.target,
              severity |-> insertLog.severity,
              payload |-> OrNull(insertLog.payload),
              userAgent |-> OrNull(insertLog.userAgent),
              method |-> insertLog.method,
              timestamp |-> insertLog.timestamp ])
    /\ currentId' = IF backend = "mem" THEN currentId + 1 ELSE currentId
    /\ UNCHANGED <<backend, attackPatterns, resp>>

\* MockDataGenerator.generateAttackPattern, its Math.random() outcomes given
\* by draw
generateAttackPattern(draw) ==
    [ name |-> Str("Zero-Day Exploit Attempt"),
      description |-> Str("Previously unknown attack vector targeting specific application vulnerabilities"),
      confidence |-> Num(draw.confidence),
      occurrences |-> Num(5),
      firstSeen |-> now - 1,
      lastSeen |-> now,
      technique |-> Str("Buffer overflow with shellcode injection"),
      riskScore |-> Num(draw.riskScore),
      status |-> Str(draw.status),
      aiGenerated |-> Bool(TRUE) ]

\* the row createAttackPattern stores for insertPattern
PatternRow(id, insertPattern) ==
    [ id |-> id,
      name |-> insertPattern.name,
      description |-> insertPattern.description,
      confidence |-> insertPattern.confidence,
      occurrences |-> insertPattern.occurrences,
      firstSeen |-> insertPattern.firstSeen,
      lastSeen |-> insertPattern.lastSeen,
      technique |-> insertPattern.technique,
      riskScore |-> insertPattern.riskScore,
      status |-> insertPattern.status,
      aiGenerated |-> IF insertPattern.aiGenerated \in { Undefined, Null }
                      THEN Bool(TRUE) ELSE insertPattern.aiGenerated ]

createAttackPattern(insertPattern) ==
    /\ resp = NoResponse
    /\ Len(attackPatterns) < MaxPatterns
    /\ attackPatterns' = Append(attackPatterns,
                                PatternRow(NextPatternId, insertPattern))
    /\ currentId' = IF backend = "mem" THEN currentId + 1 ELSE currentId
    /\ UNCHANGED <<backend, trafficLogs, resp>>

\* PATCH /api/attack-patterns/:id
PatchAttackPattern(idParam, status) ==
    /\ resp = NoResponse
    /\ LET id == parseInt(idParam)
           request == [ route |-> PatchRoute, id |-> idParam, status |-> status ]
           update == updateAttackPatternStatus(attackPatterns, id, status)
       IN  IF StatusMissing(status)
           THEN /\ resp' = [ request |-> request, code |-> 400,
                             message |-> "Status is required" ]
                /\ UNCHANGED attackPatterns
           ELSE /\ attackPatterns' = update.patterns
                /\ resp' = IF update.result = Undefined
                           THEN [ request |-> request, code |-> 404,
                                  message |-> "Attack pattern not found" ]
                           ELSE [ request |-> request, code |-> 200,
                                  body |-> update.result ]
    /\ UNCHANGED <<backend, trafficLogs, currentId>>

\* GET /api/traffic-logs
GetTrafficLogs(query, tie) ==
    /\ resp = NoResponse
    /\ LET page == IF query.page = Undefined THEN Str("1") ELSE query.page
           limit == IF query.limit = Undefined THEN Str("10") ELSE query.limit
           pageNum == parseInt(page.s)
           limitNum == parseInt(limit.s)
           offset == Times(Minus(pageNum, Num(1)), limitNum)
           filters == [ severity |-> query.severity,
                        attackType |-> query.attackType,
                        ipAddress |-> query.ipAddress,
                        limit |-> limitNum,
                        offset |-> offset ]
           logs == IF backend = "mem"
                   THEN MemGetTrafficLogs(trafficLogs, filters)
                   ELSE DbGetTrafficLogs(trafficLogs, filters, tie)
           total == IF backend = "mem"
                    THEN MemGetTrafficLogCount(trafficLogs, filters)
                    ELSE DbGetTrafficLogCount(trafficLogs, filters)
       IN  resp' = [ request |-> [ route |-> LogsRoute, query |-> query ],
                     code |-> 200,
                     data |-> logs,
                     total |-> total,
                     page |-> pageNum,
                     limit |-> limitNum,
                     totalPages |-> CeilDiv(total, limitNum) ]
    /\ UNCHANGED <<backend, trafficLogs, attackPatterns, currentId>>

\* the response has been sent
Sent ==
    /\ resp # NoResponse
    /\ resp' = NoResponse
    /\ UNCHANGED <<backend, trafficLogs, attackPatterns, currentId>>

\* ---- attack patterns and their status

InitPatterns ==
    /\ ScorerIdle
    /\ AnalyzerInit
    /\ DetectorIdle
    /\ BackgroundIdle
    /\ backend \in Backends
    /\ trafficLogs = << >>
    /\ attackPatterns = << >>
    /\ currentId = 1
    /\ resp = NoResponse

StoreOnly == UNCHANGED <<scorerVars, analyzerVars, detectorVars, backgroundVars>>

NextPatterns ==
    \/ \E draw \in PatternDraws :
         createAttackPattern(generateAttackPattern(draw)) /\ StoreOnly
    \/ \E idParam \in PatchIds, status \in PatchStatuses :
         PatchAttackPattern(idParam, status) /\ StoreOnly
    \/ Sent /\ StoreOnly

SpecPatterns == InitPatterns /\ [][NextPatterns]_vars

\* ---- traffic logs and their pages

InitPaging ==
    /\ ScorerIdle
    /\ AnalyzerInit
    /\ DetectorIdle
    /\ BackgroundIdle
    /\ backend \in Backends
    /\ \E variant \in SeedVariants :
         trafficLogs = [ i \in 1..SeedLogs |-> SeedLog(i, variant) ]
    /\ attackPatterns = << >>
    /\ currentId = SeedLogs + 1
    /\ resp = NoResponse

NextPaging ==
    \/ \E insertLog \in CreatedLogs : createTrafficLog(insertLog) /\ StoreOnly
    \/ \E query \in LogQueries, tie \in TieOrders :
         GetTrafficLogs(query, tie) /\ StoreOnly
    \/ Sent /\ StoreOnly

SpecPaging == InitPaging /\ [][NextPaging]_vars

\* ---- properties of the storage model

LifecycleStatuses ==
    << Str("new"), Str("under_review"), Str("confirmed"), Str("added_to_dataset") >>

\* the position of a status in the lifecycle
StatusRank(status) ==
    CHOOSE k \in 1..Len(LifecycleStatuses) : LifecycleStatuses[k] = status

\* C7: no status-change operation takes a stored attack pattern from a
\* status of the lifecycle new, under_review, confirmed, added_to_dataset to
\* an earlier one.
C7_StatusMovesForward ==
    [][ \A i \in 1..Len(attackPatterns) :
          (/\ attackPatterns[i].status \in Range(LifecycleStatuses)
           /\ attackPatterns'[i].status \in Range(LifecycleStatuses))
            => StatusRank(attackPatterns'[i].status)
                 >= StatusRank(attackPatterns[i].status) ]_vars

IsPatch(r) == r # NoResponse /\ r.request.route = PatchRoute
IsLogsPage(r) == r # NoResponse /\ r.request.route = LogsRoute

\* C24: a step changes nothing of a stored pattern but its status, and it
\* changes the status of a pattern only if it is the PATCH that answered 200
\* for that pattern's id; stored patterns are never removed or reordered.
C24_OnlyStatusChanges ==
    [][ /\ Len(attackPatterns') >= Len(attackPatterns)
        /\ \A i \in 1..Len(attackPatterns) :
             /\ DOMAIN attackPatterns'[i] = DOMAIN attackPatterns[i]
             /\ \A f \in { "id", "name", "description", "confidence", "occurrences",
                            "firstSeen", "lastSeen", "technique", "riskScore",
                            "aiGenerated" } :
                   attackPatterns'[i][f] = attackPatterns[i][f]
             /\ attackPatterns'[i].status # attackPatterns[i].status =>
                   /\ IsPatch(resp')
                   /\ resp'.code = 200
                   /\ parseInt(resp'.request.id) = Num(attackPatterns[i].id)
                   /\ attackPatterns'[i].status = resp'.request.status ]_vars

\* a PATCH has changed the status of the first of two stored patterns, and
\* the second still has the status it was created with
C24_Witness ==
    /\ IsPatch(resp)
    /\ resp.code = 200
    /\ Len(attackPatterns) = 2
    /\ resp.body.id = attackPatterns[1].id
    /\ attackPatterns[1].status = Str("archived")
    /\ attackPatterns[2].status = Str("new")

\* C8: a PATCH whose status is not one of the four lifecycle values is
\* rejected, and every stored attack pattern has one of the four as status.
C8_StatusValidated ==
    /\ \A i \in 1..Len(attackPatterns) :
         attackPatterns[i].status \in Range(LifecycleStatuses)
    /\ (IsPatch(resp) /\ resp.request.status \notin Range(LifecycleStatuses))
          => resp.code = 400

Timestamps(logs) == [ i \in 1..Len(logs) |-> logs[i].timestamp ]

\* C10: for page >= 1 and limit >= 1, total is the number of stored logs
\* matching the filters, totalPages is ceil(total / limit), and data is the
\* slice from (page - 1) * limit up to page * limit of the matching logs in
\* descending order of timestamp.
C10_Pagination ==
    (/\ IsLogsPage(resp)
     /\ resp.page # NaN /\ resp.limit # NaN
     /\ resp.page.n >= 1 /\ resp.limit.n >= 1) =>
        LET query == resp.request.query
            matching == SelectSeq(trafficLogs,
                                  LAMBDA log : MatchesFilters(log, query))
            total == Len(matching)
            limit == resp.limit.n
            first == (resp.page.n - 1) * limit
            size == Max(0, Min(limit, total - first))
        IN  /\ resp.total = Num(total)
            /\ resp.totalPages = Num((total + limit - 1) \div limit)
            /\ Len(resp.data) = size
            /\ Timestamps(resp.data)
                 = SubSeq(Timestamps(SortByTimestampDesc(matching)),
                          first + 1, first + size)
            /\ \A i \in 1..Len(resp.data) : resp.data[i] \in Range(matching)
            /\ \A i, j \in 1..Len(resp.data) :
                 i # j => resp.data[i].id # resp.data[j].id

\* the filters objects the two stores are compared on
StoreFilters ==
    [ severity : { Undefined, Str("high") },
      attackType : { Undefined, Str("sql") },
      ipAddress : { Undefined, Str("10.0") },
      limit : { Undefined, Num(7) },
      offset : { Undefined, Num(7) } ]

\* C20: on the same created logs and the same filters (severity, attackType
\* alias, ipAddress, limit, offset), the in-memory store and the relational
\* store return the same records in the same order from getTrafficLogs and
\* the same number from getTrafficLogCount.
C20_StoresInterchangeable ==
    \A filters \in StoreFilters :
        /\ \A tie \in TieOrders :
              MemGetTrafficLogs(trafficLogs, filters)
                = DbGetTrafficLogs(trafficLogs, filters, tie)
        /\ MemGetTrafficLogCount(trafficLogs, filters)
              = DbGetTrafficLogCount(trafficLogs, filters)

(***************************************************************************)
(* The rule-based detectors run repeatedly on one array of logs            *)
(***************************************************************************)

MaxPerIP == 4
MaxRuns == 2

DetectorIPs == << "203.0.113.5", "198.51.100.7" >>

\* the attack types of one address's logs, repeated in a cycle
TypeCycles ==
    << << "SQL Injection" >>,
       << "SQL Injection", "XSS Attempt", "Brute Force" >>,
       << "Directory Traversal", "SQL Injection" >> >>

\* how the timestamps of a batch relate to its array order
BatchOrders == { "ascending", "descending", "second first", "alternating", "equal" }

\* timestamp of the i-th log (1..n) of address a (1 or 2), n1 logs of
\* address 1 coming first in the array
BatchTimestamp(a, i, n1, order) ==
    LET pos == IF a = 1 THEN i ELSE n1 + i
    IN  CASE order = "ascending" -> pos
          [] order = "descending" -> 100 - pos
          [] order = "second first" -> IF a = 1 THEN 50 + i ELSE i
          [] order = "alternating" -> 2 * i + a
          [] order = "equal" -> 5

DetectorBatch(n1, n2, c1, c2, order) ==
    [ i \in 1..n1 |->
        BatchLog(DetectorIPs[1], TypeCycles[c1][((i - 1) % Len(TypeCycles[c1])) + 1],
                 BatchTimestamp(1, i, n1, order), Null) ]
    \o
    [ i \in 1..n2 |->
        BatchLog(DetectorIPs[2], TypeCycles[c2][((i - 1) % Len(TypeCycles[c2])) + 1],
                 BatchTimestamp(2, i, n1, order), Null) ]

DetectorBatches ==
    { DetectorBatch(n1, n2, c1, c2, order) :
        n1 \in 0..MaxPerIP, n2 \in 0..MaxPerIP,
        c1 \in 1..Len(TypeCycles), c2 \in 1..Len(TypeCycles),
        order \in BatchOrders }

\* one call of performRuleBasedAnomalyDetection(batch): detectAttackSequences
\* sorts the array it was given, so the caller's array is sorted afterwards
RunDetectors ==
    /\ Len(runs) < MaxRuns
    /\ runs' = Append(runs, performRuleBasedAnomalyDetection(batch, now))
    /\ batch' = SortByTimestampAsc(batch)

InitDetectors ==
    /\ ScorerIdle
    /\ AnalyzerInit
    /\ StoreIdle
    /\ batch \in DetectorBatches
    /\ runs = << >>
    /\ BackgroundIdle

NextDetectors ==
    RunDetectors /\ UNCHANGED <<scorerVars, analyzerVars, storeVars, backgroundVars>>

SpecDetectors == InitDetectors /\ [][NextDetectors]_vars

Named(patterns, name) == SelectSeq(patterns, LAMBDA p : p.name = Str(name))

LogsOf(logs, ip) == SelectSeq(logs, LAMBDA l : l.sourceIP = ip)

\* C11: in every run the coordinated-attack patterns are exactly one per
\* source address having at least 3 logs of at least 2 distinct attack
\* types, each with occurrences the number of that address's logs,
\* confidence 85 and riskScore 8; no other address gets one.
C11_CoordinatedPerAddress ==
    \A r \in 1..Len(runs) :
        LET found == Named(runs[r], "Multi-Vector Coordinated Attack")
            About(ip) == SelectSeq(found, LAMBDA p :
                            Includes(p.description.s, "from " \o ip \o " using"))
            Qualifies(ip) ==
                /\ Len(LogsOf(batch, ip)) >= 3
                /\ Cardinality({ l.attackType : l \in Range(LogsOf(batch, ip)) }) >= 2
        IN  /\ \A k \in 1..Len(DetectorIPs) :
                 LET ip == DetectorIPs[k]
                 IN  IF Qualifies(ip)
                     THEN /\ Len(About(ip)) = 1
                          /\ About(ip)[1].occurrences = Num(Len(LogsOf(batch, ip)))
                          /\ About(ip)[1].confidence = Num(85)
                          /\ About(ip)[1].riskScore = Num(8)
                     ELSE Len(About(ip)) = 0
            /\ Len(found) = Cardinality({ k \in 1..Len(DetectorIPs) :
                                            Qualifies(DetectorIPs[k]) })

\* three logs of one address with three attack types, and the one pattern
\* emitted for them
C11_Witness ==
    /\ Len(runs) = 1
    /\ Len(batch) = 3
    /\ { l.attackType : l \in Range(batch) }
         = { "SQL Injection", "XSS Attempt", "Brute Force" }
    /\ Len(Named(runs[1], "Multi-Vector Coordinated Attack")) = 1
    /\ Named(runs[1], "Multi-Vector Coordinated Attack")[1].occurrences = Num(3)

PatternShape(p) ==
    [ name |-> p.name, confidence |-> p.confidence, riskScore |-> p.riskScore,
      occurrences |-> p.occurrences ]

\* C12: a second run of the rule-based detectors on the same array returns
\* the same patterns in the same order (name, confidence, riskScore,
\* occurrences) as the first.
C12_SecondRunSame ==
    Len(runs) >= 2 =>
        /\ Len(runs[2]) = Len(runs[1])
        /\ \A k \in 1..Len(runs[1]) :
             PatternShape(runs[2][k]) = PatternShape(runs[1][k])

\* C13: after a run the array is in ascending timestamp order, and the
\* sequence patterns of the run are, in order, one per index i whose logs i
\* and i+1 share the address with 'Directory' in the first attack type and
\* 'SQL' in the second, each with confidence 80, riskScore 9, occurrences 2.
C13_OnePerAdjacentPair ==
    \A r \in 1..Len(runs) :
        LET found == Named(runs[r], "Reconnaissance-to-Exploitation Sequence")
            indexes == [ i \in 1..(Len(batch) - 1) |-> i ]
            pairs == SelectSeq(indexes, LAMBDA i :
                        /\ batch[i].sourceIP = batch[i + 1].sourceIP
                        /\ Includes(batch[i].attackType, "Directory")
                        /\ Includes(batch[i + 1].attackType, "SQL"))
        IN  /\ \A i \in 1..(Len(batch) - 1) :
                 batch[i].timestamp <= batch[i + 1].timestamp
            /\ Len(found) = Len(pairs)
            /\ \A k \in 1..Len(found) :
                 /\ found[k].confidence = Num(80)
                 /\ found[k].riskScore = Num(9)
                 /\ found[k].occurrences = Num(2)
                 /\ found[k].firstSeen = batch[pairs[k]].timestamp
                 /\ found[k].lastSeen = batch[pairs[k] + 1].timestamp

\* a run that found the same qualifying pair of attack types twice for one
\* address, and a run on a batch where the two addresses alternate
C13_Witness ==
    /\ Len(runs) = 1
    /\ Len(Named(runs[1], "Reconnaissance-to-Exploitation Sequence")) = 2
    /\ \A l \in Range(batch) : l.sourceIP = DetectorIPs[1]

\* C26: a run of the detectors leaves the caller's array of logs as it was,
\* same logs in the same order, also when the array was not sorted by
\* timestamp.
C26_BatchUnchanged == [][batch' = batch]_vars

(***************************************************************************)
(* The producers of attack patterns: the pattern timer and the anomaly     *)
(* timer of startRealTimeDataGeneration                                    *)
(***************************************************************************)

\* anomalies of a remote reply, confidence and riskScore of any JSON type
RemoteAnomalies ==
    { [ EmptyAnomaly EXCEPT !.confidence = c, !.riskScore = r ] :
        c \in ReplyNumbers, r \in ReplyNumbers }

\* the recent logs the anomaly timer reads: none yet, or one log whose
\* payload mixes two attack vectors
RecentLogs ==
    { << >>,
      << BatchLog("10.0.0.1", "SQL Injection", 30, Str("UNION SELECT <script>")) >> }

\* performRuleBasedAnomalyDetection on the recent logs
RecentAnomaliesOf ==
    [ logs \in RecentLogs, at \in ClockValues |->
        performRuleBasedAnomalyDetection(logs, at) ]

\* what detectAnomalies returns for logs: the rule-based list alone when the
\* remote call is skipped or fails, with the reply's anomalies appended when
\* it succeeds
NoRemote == [ anomalies |-> Arr(<< >>) ]
DetectedAnomalies(logs, reply, at) ==
    IF Len(logs) = 0 THEN << >>
    ELSE performAIAnomalyDetection(reply, RecentAnomaliesOf[logs, at], at)

\* an integer column takes the value
IsInteger(v) == v.t = "number"

\* the pattern timer: 40% of its ticks create a generated pattern
PatternTick(draw) == createAttackPattern(generateAttackPattern(draw))

\* the anomaly timer: every anomaly is stored in turn.  What the database
\* driver does with a value that is not an integer is not in the source:
\* accepted says whether the insert goes through or throws, which ends the
\* loop in the tick's catch block
AnomalyTick(logs, reply, accepted) ==
    LET anomalies == DetectedAnomalies(logs, reply, now)
        refused == { k \in 1..Len(anomalies) :
                       /\ backend = "db" /\ ~accepted
                       /\ ~(IsInteger(anomalies[k].confidence)
                            /\ IsInteger(anomalies[k].riskScore)) }
        stored == IF refused = {} THEN Len(anomalies)
                  ELSE (CHOOSE k \in refused : \A j \in refused : k <= j) - 1
    IN  /\ resp = NoResponse
        /\ Len(anomalies) > 0
        /\ Len(attackPatterns) + Len(anomalies) <= MaxPatterns
        /\ attackPatterns' = attackPatterns \o
              [ k \in 1..stored |-> PatternRow(NextPatternId + k - 1, anomalies[k]) ]
        /\ currentId' = IF backend = "mem" THEN currentId + stored ELSE currentId
        /\ UNCHANGED <<backend, trafficLogs, resp>>

InitProducers ==
    /\ ScorerIdle
    /\ AnalyzerInit
    /\ DetectorIdle
    /\ BackgroundIdle
    /\ backend \in Backends
    /\ trafficLogs = << >>
    /\ attackPatterns = << >>
    /\ currentId = 1
    /\ resp = NoResponse

NextProducers ==
    \/ \E draw \in PatternDraws : PatternTick(draw) /\ StoreOnly
    \/ \E logs \in RecentLogs, accepted \in BOOLEAN :
         \E reply \in { NoRemote } \cup
                      { [ anomalies |-> Arr(<< a >>) ] : a \in RemoteAnomalies } :
            AnomalyTick(logs, reply, accepted) /\ StoreOnly

SpecProducers == InitProducers /\ [][NextProducers]_vars

\* C19: every stored attack pattern has a confidence in 0..100 and a
\* riskScore in 1..10, whichever producer created it.
C19_StoredScoresInRange ==
    \A i \in 1..Len(attackPatterns) :
        /\ IsNumberIn(attackPatterns[i].confidence, 0, 100)
        /\ IsNumberIn(attackPatterns[i].riskScore, 1, 10)

(***************************************************************************)
(* System metrics: initializeMockData and the log timer's ticks call       *)
(* updateSystemMetrics, and the calls of overlapping ticks interleave      *)
(***************************************************************************)

\* mockDataGenerator.generateSystemMetrics()
generateSystemMetrics == [ id |-> NoId, attacksToday |-> 200, lastUpdated |-> 0 ]

\* getSystemMetrics: MemStorage returns its field; DatabaseStorage the rows
\* with the latest lastUpdated, of which limit 1 takes one
getSystemMetrics ==
    IF backend = "mem" THEN { systemMetrics[i] : i \in 1..Len(systemMetrics) }
    ELSE { systemMetrics[i] : i \in
             { k \in 1..Len(systemMetrics) :
                 \A j \in 1..Len(systemMetrics) :
                    systemMetrics[j].lastUpdated <= systemMetrics[k].lastUpdated } }

\* the id of a serial column's next row
NextSerial(rows) == Len(rows) + 1

\* the second half of DatabaseStorage.updateSystemMetrics: every row whose
\* id is existing.id is set to insertMetrics, or insertMetrics is inserted
DbWriteMetricsAlwaysInsert(rows, existing, insertMetrics) ==
    Append(rows, [ insertMetrics EXCEPT !.id = NextSerial(rows) ])

DbWriteMetrics(rows, existing, insertMetrics) ==
    IF existing # NoMetrics
    THEN [ i \in 1..Len(rows) |->
             IF rows[i].id = existing.id
             THEN [ insertMetrics EXCEPT
                      !.id = IF insertMetrics.id = NoId THEN rows[i].id
                             ELSE insertMetrics.id ]
             ELSE rows[i] ]
    ELSE Append(rows, [ insertMetrics EXCEPT
                          !.id = IF insertMetrics.id = NoId THEN NextSerial(rows)
                                 ELSE insertMetrics.id ])

\* where a caller is once its call has returned
Returned(c) ==
    [ NotCalling EXCEPT !.pc = IF c = "init" THEN "done" ELSE "idle" ]

\* initializeMockData is awaited before the timers are started
Started == metricsCalls["init"].pc = "done"

\* a tick of the log timer has stored its log and its analysis
ReachMetrics(c) ==
    /\ c # "init"
    /\ Started
    /\ metricsCalls[c].pc = "idle"
    /\ metricsClock < MaxUpdates
    /\ metricsClock' = metricsClock + 1
    /\ metricsCalls' = [ metricsCalls EXCEPT ![c].pc = "getSystemMetrics" ]
    /\ UNCHANGED <<systemMetrics, backend, currentId>>

\* const currentMetrics = await storage.getSystemMetrics(); if (currentMetrics)
ReadMetrics(c) ==
    /\ metricsCalls[c].pc = "getSystemMetrics"
    /\ \/ /\ getSystemMetrics = {}
          /\ metricsCalls' = [ metricsCalls EXCEPT ![c] = Returned(c) ]
       \/ \E currentMetrics \in getSystemMetrics :
            metricsCalls' = [ metricsCalls EXCEPT ![c] =
                [ pc |-> "updateSystemMetrics",
                  insertMetrics |->
                      [ currentMetrics EXCEPT
                          !.attacksToday = currentMetrics.attacksToday + 1,
                          !.lastUpdated = metricsClock ],
                  existing |-> NoMetrics ] ]
    /\ UNCHANGED <<systemMetrics, metricsClock, backend, currentId>>

\* MemStorage.updateSystemMetrics, which runs without yielding
MemUpdateMetrics(c) ==
    /\ backend = "mem"
    /\ metricsCalls[c].pc = "updateSystemMetrics"
    /\ LET kept == Len(systemMetrics) > 0 /\ systemMetrics[1].id # 0
           id == IF kept THEN systemMetrics[1].id ELSE currentId
       IN  /\ systemMetrics' = << [ metricsCalls[c].insertMetrics EXCEPT !.id = id ] >>
           /\ currentId' = IF kept THEN currentId ELSE currentId + 1
    /\ metricsCalls' = [ metricsCalls EXCEPT ![c] = Returned(c) ]
    /\ UNCHANGED <<metricsClock, backend>>

\* DatabaseStorage.updateSystemMetrics: const existing = await getSystemMetrics()
DbSelectExisting(c) ==
    /\ backend = "db"
    /\ metricsCalls[c].pc = "updateSystemMetrics"
    /\ \/ /\ getSystemMetrics = {}
          /\ metricsCalls' = [ metricsCalls EXCEPT ![c].pc = "write" ]
       \/ \E existing \in getSystemMetrics :
            metricsCalls' = [ metricsCalls EXCEPT ![c].pc = "write",
                                                  ![c].existing = existing ]
    /\ UNCHANGED <<systemMetrics, metricsClock, backend, currentId>>

\* DatabaseStorage.updateSystemMetrics: the update or the insert
DbWrite(c) ==
    /\ backend = "db"
    /\ metricsCalls[c].pc = "write"
    /\ systemMetrics' = DbWriteMetrics(systemMetrics, metricsCalls[c].existing,
                                       metricsCalls[c].insertMetrics)
    /\ metricsCalls' = [ metricsCalls EXCEPT ![c] = Returned(c) ]
    /\ UNCHANGED <<metricsClock, backend, currentId>>

\* an awaited call of a tick rejects: the tick's catch block ends the tick
MetricsRejected(c) ==
    /\ c # "init"
    /\ metricsCalls[c].pc # "idle"
    /\ metricsCalls' = [ metricsCalls EXCEPT ![c] = Returned(c) ]
    /\ UNCHANGED <<systemMetrics, metricsClock, backend, currentId>>

MetricsOnly ==
    UNCHANGED <<scorerVars, analyzerVars, detectorVars, timerVars, recordVars,
                trafficLogs, attackPatterns, resp>>

InitMetrics ==
    /\ ScorerIdle
    /\ AnalyzerInit
    /\ DetectorIdle
    /\ TimersIdle
    /\ RecordsIdle
    /\ backend \in Backends
    /\ trafficLogs = << >>
    /\ attackPatterns = << >>
    /\ currentId = 1
    /\ resp = NoResponse
    /\ systemMetrics = << >>
    /\ metricsCalls = [ c \in Callers |->
                          IF c = "init"
                          THEN [ NotCalling EXCEPT !.pc = "updateSystemMetrics",
                                                   !.insertMetrics = generateSystemMetrics ]
                          ELSE NotCalling ]
    /\ metricsClock = 0

NextMetrics ==
    \/ \E c \in Callers : ReachMetrics(c) /\ MetricsOnly
    \/ \E c \in Callers : ReadMetrics(c) /\ MetricsOnly
    \/ \E c \in Callers : MemUpdateMetrics(c) /\ MetricsOnly
    \/ \E c \in Callers : DbSelectExisting(c) /\ MetricsOnly
    \/ \E c \in Callers : DbWrite(c) /\ MetricsOnly
    \/ \E c \in Callers : MetricsRejected(c) /\ MetricsOnly

SpecMetrics == InitMetrics /\ [][NextMetrics]_vars

\* C18: once the start-up update has returned, the store holds exactly one
\* SystemMetrics row whatever updates have run or are running, and no step
\* of an update changes that row's id or adds a second row.
C18_OneSnapshot ==
    /\ [](Started => Len(systemMetrics) = 1)
    /\ [][ Len(systemMetrics) = 1 =>
              /\ Len(systemMetrics') = 1
              /\ systemMetrics'[1].id = systemMetrics[1].id ]_vars

\* two overlapping updates: one has written while the other was between its
\* select and its write
C18_Witness ==
    /\ Len(systemMetrics) = 1
    /\ \E c \in Callers :
         /\ metricsCalls[c].pc = "write"
         /\ metricsCalls[c].existing # NoMetrics
         /\ systemMetrics[1].attacksToday > metricsCalls[c].existing.attacksToday

MayFinishAt ==
    { << "log", "getSystemMetrics" >>, << "pattern", "callback" >>,
      << "anomaly", "detectAnomalies" >> }

IndexOf(t, step) == CHOOSE i \in 1..Len(Steps[t]) : Steps[t][i] = step

\* where a tick goes when the call it awaits at pos fulfils
NextSteps(pos) ==
    LET t == pos[1]
        i == IndexOf(t, pos[2])
    IN  (IF i < Len(Steps[t]) THEN { Steps[t][i + 1] } ELSE { "done" })
          \cup (IF pos \in MayFinishAt THEN { "done" } ELSE { })

\* the ticks of timer t that have not finished
RunningTicks(t) ==
    LET sum[i \in 0..Len(Steps[t])] ==
            IF i = 0 THEN 0 ELSE sum[i - 1] + running[<< t, Steps[t][i] >>]
    IN  sum[Len(Steps[t])]

\* whether the rejection of the call awaited at step reaches the callback's
\* catch block: every await is inside try { ... } catch (error) { console.error }
TickCatchesNothing(step) == FALSE

TickCatches(step) == TRUE

\* the interval of timer t elapses and its callback is entered
Fire(t) ==
    /\ alive
    /\ RunningTicks(t) < MaxRunning
    /\ running' = [ running EXCEPT ![<< t, "callback" >>] = @ + 1 ]
    /\ UNCHANGED <<failed, alive>>

\* the call a tick awaits fulfils (for the callback step: its synchronous
\* start has run)
Fulfil(pos, next) ==
    /\ alive
    /\ running[pos] > 0
    /\ next \in NextSteps(pos)
    /\ running' = [ q \in Positions |->
                      IF q = pos THEN running[q] - 1
                      ELSE IF q = << pos[1], next >> THEN running[q] + 1
                      ELSE running[q] ]
    /\ UNCHANGED <<failed, alive>>

\* the call a tick awaits rejects: the tick ends, in its catch block or as
\* an unhandled rejection that ends the process
TickRejects(pos) ==
    /\ alive
    /\ pos[2] # "callback"
    /\ running[pos] > 0
    /\ running' = [ running EXCEPT ![pos] = @ - 1 ]
    /\ failed' = failed \cup { pos[1] }
    /\ alive' = TickCatches(pos[2])

TimersOnly ==
    UNCHANGED <<scorerVars, analyzerVars, storeVars, detectorVars, metricsVars,
                recordVars>>

InitTimers ==
    /\ ScorerIdle
    /\ AnalyzerInit
    /\ StoreIdle
    /\ DetectorIdle
    /\ MetricsIdle
    /\ TimersIdle
    /\ RecordsIdle

StepAt(pos) ==
    \/ \E next \in NextSteps(pos) : Fulfil(pos, next)
    \/ TickRejects(pos)

NextTimers ==
    \/ \E t \in Intervals : Fire(t) /\ TimersOnly
    \/ \E pos \in Positions : \E next \in NextSteps(pos) :
          Fulfil(pos, next) /\ TimersOnly
    \/ \E pos \in Positions : TickRejects(pos) /\ TimersOnly

\* setInterval keeps scheduling its callback, and every awaited call settles
SpecTimers ==
    /\ InitTimers
    /\ [][NextTimers]_vars
    /\ \A t \in Intervals : WF_vars(Fire(t) /\ TimersOnly)
    /\ \A pos \in Positions : WF_vars(StepAt(pos) /\ TimersOnly)

\* a tick of timer t has just been entered
Firing(t) == running[<< t, "callback" >>] > 0

\* C17: a rejection at any awaited step of a tick never ends the process,
\* and each of the three timers fires again and again, whichever ticks have
\* failed before.
C17_FailedTickCaught ==
    /\ []alive
    /\ \A t \in Intervals : []<>Firing(t)

\* ticks of all three timers have failed, and the log timer fires again
C17_Witness ==
    /\ alive
    /\ failed = Intervals
    /\ Firing("log")

(***************************************************************************)
(* Dataset statistics and POST /api/retrain-model                          *)
(***************************************************************************)

RetrainRoute == "POST /api/retrain-model"

\* mockDataGenerator.generateDatasetStats(): modelAccuracy is
\* Math.floor(Math.random() * 5) + 92, lastRetraining lies in the past
AccuracyDraws == 0..4
generateDatasetStats(draw) ==
    [ id |-> NoId, modelAccuracy |-> draw + 92, lastRetraining |-> 0 ]

\* getDatasetStats: MemStorage returns its field; DatabaseStorage a row with
\* the latest lastRetraining
getDatasetStats ==
    IF backend = "mem" THEN { datasetStats[i] : i \in 1..Len(datasetStats) }
    ELSE { datasetStats[i] : i \in
             { k \in 1..Len(datasetStats) :
                 \A j \in 1..Len(datasetStats) :
                    datasetStats[j].lastRetraining <= datasetStats[k].lastRetraining } }

\* updateDatasetStats: MemStorage keeps the id of its field or takes one
\* from the counter; DatabaseStorage updates the existing row by id or inserts
updateDatasetStats(insertStats) ==
    IF backend = "mem"
    THEN << [ insertStats EXCEPT
                !.id = IF Len(datasetStats) > 0 /\ datasetStats[1].id # 0
                       THEN datasetStats[1].id ELSE currentId ] >>
    ELSE IF getDatasetStats = {}
         THEN DbWriteMetrics(datasetStats, NoMetrics, insertStats)
         ELSE DbWriteMetrics(datasetStats, CHOOSE e \in getDatasetStats : TRUE,
                             insertStats)

\* Math.floor(Math.random() * 3) + 1
RetrainDraws == 1..3

\* Math.min(99, currentStats.modelAccuracy + ...)
newAccuracyUncapped(modelAccuracy, d) == modelAccuracy + d

newAccuracy(modelAccuracy, d) == Min(99, modelAccuracy + d)

\* the response, with what the request read: a snapshot, none, or a rejection
StatsRejected == [ rejected |-> TRUE ]
RetrainResponse(code, message, currentStats) ==
    [ code |-> code, request |-> [ route |-> RetrainRoute ],
      body |-> message, read |-> currentStats ]

\* initializeMockData: await storage.updateDatasetStats(stats)
SeedDatasetStats(draw) ==
    /\ datasetStats = << >>
    /\ \A r \in Requests : retraining[r].pc = "idle"
    /\ datasetStats' = updateDatasetStats(generateDatasetStats(draw))
    /\ currentId' = IF backend = "mem" THEN currentId + 1 ELSE currentId
    /\ UNCHANGED <<retraining, resp>>

\* a retrain request arrives
ReceiveRetrain(r) ==
    /\ retraining[r].pc = "idle"
    /\ retraining' = [ retraining EXCEPT ![r].pc = "getDatasetStats" ]
    /\ UNCHANGED <<datasetStats, currentId, resp>>

\* const currentStats = await storage.getDatasetStats(); if (currentStats)
ReadDatasetStats(r, d) ==
    /\ retraining[r].pc = "getDatasetStats"
    /\ IF getDatasetStats = {}
       THEN /\ resp = NoResponse
            /\ resp' = RetrainResponse(200, "Model retraining initiated", NoStats)
            /\ retraining' = [ retraining EXCEPT ![r] = NotRetraining ]
       ELSE \E currentStats \in getDatasetStats :
              /\ retraining' = [ retraining EXCEPT ![r] =
                    [ pc |-> "updateDatasetStats",
                      currentStats |-> currentStats,
                      insertStats |->
                          [ currentStats EXCEPT
                              !.modelAccuracy = newAccuracy(currentStats.modelAccuracy, d),
                              !.lastRetraining = 1 ] ] ]
              /\ UNCHANGED resp
    /\ UNCHANGED <<datasetStats, currentId>>

\* await storage.updateDatasetStats({...}); res.json(...)
WriteDatasetStats(r) ==
    /\ retraining[r].pc = "updateDatasetStats"
    /\ resp = NoResponse
    /\ datasetStats' = updateDatasetStats(retraining[r].insertStats)
    /\ currentId' = IF backend = "mem" /\ datasetStats = << >>
                    THEN currentId + 1 ELSE currentId
    /\ resp' = RetrainResponse(200, "Model retraining initiated",
                               retraining[r].currentStats)
    /\ retraining' = [ retraining EXCEPT ![r] = NotRetraining ]

\* an awaited storage call rejects: catch (error) { res.status(500) }
RetrainFails(r) ==
    /\ retraining[r].pc # "idle"
    /\ resp = NoResponse
    /\ resp' = RetrainResponse(500, "Failed to retrain model", StatsRejected)
    /\ retraining' = [ retraining EXCEPT ![r] = NotRetraining ]
    /\ UNCHANGED <<datasetStats, currentId>>

RetrainSent ==
    /\ resp # NoResponse
    /\ resp' = NoResponse
    /\ UNCHANGED <<datasetStats, currentId, retraining>>

RetrainOnly ==
    UNCHANGED <<scorerVars, analyzerVars, detectorVars, metricsVars, timerVars,
                backend, trafficLogs, attackPatterns,
                env, aiAnalysisResults, users, routine>>

InitRetrain ==
    /\ ScorerIdle /\ AnalyzerInit /\ DetectorIdle /\ MetricsIdle /\ TimersIdle
    /\ backend \in Backends
    /\ trafficLogs = << >>
    /\ attackPatterns = << >>
    /\ currentId = 1
    /\ resp = NoResponse
    /\ env = KeyedEnv
    /\ datasetStats = << >>
    /\ aiAnalysisResults = << >>
    /\ users = << >>
    /\ retraining = [ r \in Requests |-> NotRetraining ]
    /\ routine = NotRunning

NextRetrain ==
    \/ \E draw \in AccuracyDraws : SeedDatasetStats(draw) /\ RetrainOnly
    \/ \E r \in Requests : ReceiveRetrain(r) /\ RetrainOnly
    \/ \E r \in Requests, d \in RetrainDraws : ReadDatasetStats(r, d) /\ RetrainOnly
    \/ \E r \in Requests : WriteDatasetStats(r) /\ RetrainOnly
    \/ \E r \in Requests : RetrainFails(r) /\ RetrainOnly
    \/ RetrainSent /\ RetrainOnly

SpecRetrain == InitRetrain /\ [][NextRetrain]_vars

\* C22: a retrain request that finds a snapshot sets its modelAccuracy to
\* min(99, old + d) for a d in 1..3, old being the value the request read;
\* modelAccuracy is never above 99; and a request that finds no snapshot is
\* answered 200 and creates none.
C22_RetrainCapped ==
    /\ [](\A i \in 1..Len(datasetStats) : datasetStats[i].modelAccuracy <= 99)
    /\ []((resp # NoResponse /\ resp.read \notin { NoStats, StatsRejected }) =>
             /\ resp.code = 200
             /\ Len(datasetStats) = 1
             /\ \E d \in 1..3 :
                  datasetStats[1].modelAccuracy
                    = (IF resp.read.modelAccuracy + d < 99
                       THEN resp.read.modelAccuracy + d ELSE 99))
    /\ []((resp # NoResponse /\ resp.read = NoStats) => resp.code = 200)
    /\ [][(retraining' # retraining /\ datasetStats = << >>) =>
             datasetStats' = << >>]_vars

\* a retrain of a snapshot at 98 has been answered, and the cap held it at 99
C22_Witness ==
    /\ resp # NoResponse
    /\ resp.code = 200
    /\ resp.read # NoStats
    /\ resp.read.modelAccuracy = 98
    /\ datasetStats[1].modelAccuracy = 99

(***************************************************************************)
(* Records and their ids: the create methods of the stores                 *)
(***************************************************************************)

\* the number of records created in one run of the in-memory store
MaxRecords == 6

\* JSON.stringify of a string: quotes and backslashes are escaped
EscapeChar(c) ==
    IF c = "\"" THEN "\\\"" ELSE IF c = "\\" THEN "\\\\" ELSE c

RECURSIVE Escape(_)
Escape(s) ==
    IF Len(s) = 0 THEN ""
    ELSE EscapeChar(SubSeq(s, 1, 1)) \o Escape(SubSeq(s, 2, Len(s)))

\* JSON.stringify of an array of strings
RECURSIVE JSONStringifyItems(_)
JSONStringifyItems(a) ==
    IF Len(a) = 0 THEN ""
    ELSE "\"" \o Escape(a[1]) \o "\""
         \o (IF Len(a) > 1 THEN "," ELSE "")
         \o JSONStringifyItems(SubSeq(a, 2, Len(a)))

JSONStringify(a) == "[" \o JSONStringifyItems(a) \o "]"

\* the log MockDataGenerator.generateTrafficLog returns: its timestamp is
\* now - Math.random() * 24 hours, age being that random part
GeneratedLog == CHOOSE log \in AnalyzerLogs : TRUE
generateTrafficLog(age) == [ GeneratedLog EXCEPT !.timestamp = now - age ]

\* the object the log timer and initializeMockData give to
\* createAIAnalysisResult for the analysis of a stored log
InsertAnalysis(trafficLogId, analysis, at) ==
    [ trafficLogId |-> trafficLogId,
      attackType |-> analysis.attackType,
      technique |-> analysis.technique,
      riskScore |-> analysis.riskScore,
      recommendations |-> Str(JSONStringify(analysis.recommendations.a)),
      confidence |-> analysis.confidence,
      timestamp |-> at ]

\* the analyses of the generated log, by the draws of detectNewPattern
InsertAnalysisOf ==
    [ draw \in RandomDraws |->
        InsertAnalysis(Undefined, EnhancedAnalysisOf[GeneratedLog, draw], 0) ]

InsertUsers == { [ username |-> "admin", password |-> "changeme" ] }

NextUserId == IF backend = "mem" THEN currentId ELSE Len(users) + 1
NextAnalysisId == IF backend = "mem" THEN currentId ELSE Len(aiAnalysisResults) + 1

\* the row createAIAnalysisResult stores for insertResult
AnalysisRow(id, insertResult) ==
    [ id |-> id,
      trafficLogId |-> OrNull(insertResult.trafficLogId),
      attackType |-> insertResult.attackType,
      technique |-> insertResult.technique,
      riskScore |-> insertResult.riskScore,
      recommendations |-> insertResult.recommendations,
      confidence |-> insertResult.confidence,
      timestamp |-> insertResult.timestamp ]

createUser(insertUser) ==
    /\ users' = Append(users, [ id |-> NextUserId,
                                username |-> insertUser.username,
                                password |-> insertUser.password ])
    /\ currentId' = IF backend = "mem" THEN currentId + 1 ELSE currentId
    /\ UNCHANGED <<backend, trafficLogs, attackPatterns, resp, systemMetrics,
                   datasetStats, aiAnalysisResults>>

createAIAnalysisResult(insertResult) ==
    /\ aiAnalysisResults' = Append(aiAnalysisResults,
                                   AnalysisRow(NextAnalysisId, insertResult))
    /\ currentId' = IF backend = "mem" THEN currentId + 1 ELSE currentId
    /\ UNCHANGED <<backend, trafficLogs, attackPatterns, resp, systemMetrics,
                   datasetStats, users>>

\* MemStorage.updateSystemMetrics
MemUpdateSystemMetrics(insertMetrics) ==
    /\ backend = "mem"
    /\ LET kept == Len(systemMetrics) > 0 /\ systemMetrics[1].id # 0
           id == IF kept THEN systemMetrics[1].id ELSE currentId
       IN  /\ systemMetrics' = << [ insertMetrics EXCEPT !.id = id ] >>
           /\ currentId' = IF kept THEN currentId ELSE currentId + 1
    /\ UNCHANGED <<backend, trafficLogs, attackPatterns, resp, datasetStats,
                   aiAnalysisResults, users>>

\* MemStorage.updateDatasetStats
MemUpdateDatasetStats(insertStats) ==
    /\ backend = "mem"
    /\ datasetStats' = updateDatasetStats(insertStats)
    /\ currentId' = IF Len(datasetStats) > 0 /\ datasetStats[1].id # 0
                    THEN currentId ELSE currentId + 1
    /\ UNCHANGED <<backend, trafficLogs, attackPatterns, resp, systemMetrics,
                   aiAnalysisResults, users>>

\* the ids of the stored records of every kind, kind by kind
IdsOf(rows) == [ i \in 1..Len(rows) |-> rows[i].id ]
RecordIds ==
    IdsOf(users) \o IdsOf(trafficLogs) \o IdsOf(attackPatterns)
        \o IdsOf(aiAnalysisResults) \o IdsOf(systemMetrics) \o IdsOf(datasetStats)

IdSet == { RecordIds[i] : i \in 1..Len(RecordIds) }

\* the metrics the log timer writes back, and a retrained snapshot
LaterMetrics == [ generateSystemMetrics EXCEPT !.attacksToday = 201, !.lastUpdated = 1 ]
LaterStats == [ generateDatasetStats(0) EXCEPT !.modelAccuracy = 93, !.lastRetraining = 1 ]

\* the random outcomes behind the one pattern and the one analysis created
IdsPatternDraw == [ status |-> "new", confidence |-> 70, riskScore |-> 6 ]
IdsAnalysisDraw == << FALSE, 1 >>

IdsOnly ==
    UNCHANGED <<scorerVars, analyzerVars, detectorVars, timerVars,
                metricsCalls, metricsClock, env, retraining, routine>>

InitIds ==
    /\ ScorerIdle /\ AnalyzerInit /\ DetectorIdle /\ BackgroundIdle
    /\ backend = "mem"
    /\ trafficLogs = << >>
    /\ attackPatterns = << >>
    /\ currentId = 1
    /\ resp = NoResponse

NextIds ==
    \/ \E insertUser \in InsertUsers :
         currentId <= MaxRecords /\ createUser(insertUser) /\ IdsOnly
    \/ currentId <= MaxRecords /\ createTrafficLog(generateTrafficLog(0)) /\ StoreOnly
    \/ /\ currentId <= MaxRecords
       /\ createAttackPattern(generateAttackPattern(IdsPatternDraw)) /\ StoreOnly
    \/ \E i \in 1..Len(trafficLogs) :
         /\ currentId <= MaxRecords
         /\ createAIAnalysisResult(
                [ InsertAnalysisOf[IdsAnalysisDraw] EXCEPT
                    !.trafficLogId = Num(trafficLogs[i].id), !.timestamp = now ])
         /\ IdsOnly
    \/ \E insertMetrics \in { generateSystemMetrics, LaterMetrics } :
         /\ systemMetrics = << >> => currentId <= MaxRecords
         /\ (insertMetrics = LaterMetrics) = (systemMetrics # << >>)
         /\ MemUpdateSystemMetrics(insertMetrics) /\ IdsOnly
    \/ \E insertStats \in { generateDatasetStats(0), LaterStats } :
         /\ datasetStats = << >> => currentId <= MaxRecords
         /\ (insertStats = LaterStats) = (datasetStats # << >>)
         /\ MemUpdateDatasetStats(insertStats) /\ IdsOnly

\* the in-memory store under creations of every kind in any order
SpecIds == InitIds /\ [][NextIds]_vars

\* C29: in the in-memory store no two records, of the same kind or of
\* different kinds, have the same id; and every step that creates a record
\* gives it an id greater than every id handed out before, which no later
\* step changes.
C29_IdsUnique ==
    /\ [](Cardinality(IdSet) = Len(RecordIds))
    /\ [](\A id \in IdSet : id < currentId)
    /\ [][ /\ IdSet \subseteq IdSet'
           /\ Len(RecordIds') >= Len(RecordIds)
           /\ \A id \in IdSet' \ IdSet :
                /\ id = currentId
                /\ currentId' = currentId + 1
                /\ \A old \in IdSet : old < id ]_vars

\* one record of each kind has been created, the snapshots first updated
\* again after other records were created
C29_Witness ==
    /\ Len(users) = 1 /\ Len(trafficLogs) = 1 /\ Len(attackPatterns) = 1
    /\ Len(aiAnalysisResults) = 1 /\ Len(systemMetrics) = 1 /\ Len(datasetStats) = 1
    /\ systemMetrics[1] = [ LaterMetrics EXCEPT !.id = 2 ]
    /\ datasetStats[1] = [ LaterStats EXCEPT !.id = 4 ]
    /\ aiAnalysisResults[1].trafficLogId = Num(trafficLogs[1].id)

(***************************************************************************)
(* Analysis results: initializeMockData, the log timer's ticks, and a      *)
(* restart of the process over the store                                   *)
(***************************************************************************)

\* the counts of initializeMockData, scaled: 50 logs, 5 patterns, and the
\* limit of 10 on the logs it analyses
StartupLogs == 3
StartupPatterns == 1
StartupLimit == 2

\* process starts after the first
MaxRestarts == 1

\* ages of generated logs, within the 24 hours generateTrafficLog draws from
LogAges == { 0, 2 }

Goto(pc) == [ routine EXCEPT !.pc = pc, !.i = 0 ]
Again == [ routine EXCEPT !.i = routine.i + 1 ]

\* the filters of storage.getTrafficLogs({ limit })
LimitOnly(limit) ==
    [ severity |-> Undefined, attackType |-> Undefined, ipAddress |-> Undefined,
      limit |-> Num(limit), offset |-> Undefined ]

\* DatabaseStorage.updateSystemMetrics run to its end with no other caller
DbUpdateSystemMetrics(insertMetrics) ==
    /\ backend = "db"
    /\ systemMetrics' =
          IF getSystemMetrics = {}
          THEN DbWriteMetrics(systemMetrics, NoMetrics, insertMetrics)
          ELSE DbWriteMetrics(systemMetrics, CHOOSE e \in getSystemMetrics : TRUE,
                              insertMetrics)
    /\ UNCHANGED <<backend, trafficLogs, attackPatterns, currentId, resp,
                   datasetStats, aiAnalysisResults, users>>

\* await storage.updateSystemMetrics(metrics)
StartupMetrics ==
    /\ routine.pc = "updateSystemMetrics"
    /\ \/ MemUpdateSystemMetrics(generateSystemMetrics)
       \/ DbUpdateSystemMetrics(generateSystemMetrics)
    /\ routine' = Goto("updateDatasetStats")
    /\ UNCHANGED <<now, metricsClock>>

\* await storage.updateDatasetStats(stats)
StartupStats(draw) ==
    /\ routine.pc = "updateDatasetStats"
    /\ datasetStats' = updateDatasetStats(generateDatasetStats(draw))
    /\ currentId' = IF backend = "mem" /\ datasetStats = << >>
                    THEN currentId + 1 ELSE currentId
    /\ routine' = Goto("createTrafficLog")
    /\ UNCHANGED <<backend, trafficLogs, attackPatterns, resp, systemMetrics,
                   aiAnalysisResults, users, now, metricsClock>>

\* for (let i = 0; i < 50; i++) await storage.createTrafficLog(log)
StartupLog(age) ==
    /\ routine.pc = "createTrafficLog"
    /\ createTrafficLog(generateTrafficLog(age))
    /\ routine' = IF routine.i + 1 < StartupLogs THEN Again
                  ELSE Goto("createAttackPattern")
    /\ UNCHANGED <<systemMetrics, datasetStats, aiAnalysisResults, users, now,
                   metricsClock>>

\* for (let i = 0; i < 5; i++) await storage.createAttackPattern(pattern)
StartupPattern(draw) ==
    /\ routine.pc = "createAttackPattern"
    /\ createAttackPattern(generateAttackPattern(draw))
    /\ routine' = IF routine.i + 1 < StartupPatterns THEN Again
                  ELSE Goto("getTrafficLogs")
    /\ UNCHANGED <<systemMetrics, datasetStats, aiAnalysisResults, users, now,
                   metricsClock>>

\* const logs = await storage.getTrafficLogs({ limit: 10 })
StartupReadLogs(tie) ==
    /\ routine.pc = "getTrafficLogs"
    /\ LET logs == IF backend = "mem"
                   THEN MemGetTrafficLogs(trafficLogs, LimitOnly(StartupLimit))
                   ELSE DbGetTrafficLogs(trafficLogs, LimitOnly(StartupLimit), tie)
       IN  routine' = IF Len(logs) = 0 THEN Goto("idle")
                      ELSE [ Goto("analyzeTrafficLog") EXCEPT !.logs = logs ]
    /\ UNCHANGED <<backend, trafficLogs, attackPatterns, currentId, resp,
                   systemMetrics, datasetStats, aiAnalysisResults, users, now,
                   metricsClock>>

\* for (const log of logs): analyzeTrafficLog(log), createAIAnalysisResult.
\* Whatever path the analysis takes, it is stored under log.id.
StartupAnalysis(draw) ==
    /\ routine.pc = "analyzeTrafficLog"
    /\ createAIAnalysisResult(
          [ InsertAnalysisOf[draw] EXCEPT
              !.trafficLogId = Num(routine.logs[routine.i + 1].id),
              !.timestamp = now ])
    /\ routine' = IF routine.i + 1 < Len(routine.logs) THEN Again
                  ELSE [ Goto("idle") EXCEPT !.logs = << >> ]
    /\ UNCHANGED <<now, metricsClock>>

\* a tick of the log timer: createTrafficLog(log)
TickLog(age) ==
    /\ routine.pc = "idle"
    /\ metricsClock < MaxUpdates
    /\ metricsClock' = metricsClock + 1
    /\ createTrafficLog(generateTrafficLog(age))
    /\ routine' = [ Goto("tick: analyzeTrafficLog") EXCEPT !.createdLog = NextLogId ]
    /\ UNCHANGED <<systemMetrics, datasetStats, aiAnalysisResults, users, now>>

\* analyzeTrafficLog(createdLog), createAIAnalysisResult
TickAnalysis(draw) ==
    /\ routine.pc = "tick: analyzeTrafficLog"
    /\ createAIAnalysisResult(
          [ InsertAnalysisOf[draw] EXCEPT !.trafficLogId = Num(routine.createdLog),
                                          !.timestamp = now ])
    /\ routine' = Goto("tick: getSystemMetrics")
    /\ UNCHANGED <<now, metricsClock>>

\* const currentMetrics = await storage.getSystemMetrics(); if (currentMetrics)
\* await storage.updateSystemMetrics({...})
TickMetrics ==
    /\ routine.pc = "tick: getSystemMetrics"
    /\ IF getSystemMetrics = {}
       THEN UNCHANGED <<backend, trafficLogs, attackPatterns, currentId, resp,
                        systemMetrics, datasetStats, aiAnalysisResults, users>>
       ELSE \E currentMetrics \in getSystemMetrics :
              LET insertMetrics ==
                      [ currentMetrics EXCEPT
                          !.attacksToday = currentMetrics.attacksToday + 1,
                          !.lastUpdated = metricsClock ]
              IN  \/ MemUpdateSystemMetrics(insertMetrics)
                  \/ DbUpdateSystemMetrics(insertMetrics)
    /\ routine' = [ Goto("idle") EXCEPT !.createdLog = NoId ]
    /\ UNCHANGED <<now, metricsClock>>

\* an awaited call of the tick rejects: the catch block ends the tick
TickFails ==
    /\ routine.pc \in { "tick: analyzeTrafficLog", "tick: getSystemMetrics" }
    /\ routine' = [ Goto("idle") EXCEPT !.createdLog = NoId ]
    /\ UNCHANGED <<backend, trafficLogs, attackPatterns, currentId, resp,
                   systemMetrics, datasetStats, aiAnalysisResults, users, now,
                   metricsClock>>

\* the process ends and is started again: a new MemStorage is empty, the
\* database keeps its rows, and index.ts awaits initializeMockData again
Restart ==
    /\ routine.restarts < MaxRestarts
    /\ routine' = [ NotRunning EXCEPT !.pc = "updateSystemMetrics",
                                      !.restarts = routine.restarts + 1 ]
    /\ now' = now + 1
    /\ IF backend = "mem"
       THEN /\ trafficLogs' = << >>
            /\ attackPatterns' = << >>
            /\ aiAnalysisResults' = << >>
            /\ systemMetrics' = << >>
            /\ datasetStats' = << >>
            /\ users' = << >>
            /\ currentId' = 1
       ELSE UNCHANGED <<trafficLogs, attackPatterns, aiAnalysisResults,
                        systemMetrics, datasetStats, users, currentId>>
    /\ UNCHANGED <<backend, resp, metricsClock>>

AnalysesOnly ==
    UNCHANGED <<scorerVars, detectorVars, timerVars, metricsCalls, env, retraining,
                ticks, useAdvancedAnalysis, lastApiCall, inflight, timers,
                remoteStarts, lastQuotaError, returned>>

InitAnalyses ==
    /\ ScorerIdle /\ AnalyzerInit /\ DetectorIdle /\ MetricsIdle /\ TimersIdle
    /\ backend \in Backends
    /\ trafficLogs = << >>
    /\ attackPatterns = << >>
    /\ currentId = 1
    /\ resp = NoResponse
    /\ env = KeyedEnv
    /\ datasetStats = << >>
    /\ aiAnalysisResults = << >>
    /\ users = << >>
    /\ retraining = [ r \in Requests |-> NotRetraining ]
    /\ routine = [ NotRunning EXCEPT !.pc = "updateSystemMetrics" ]

NextAnalyses ==
    \/ StartupMetrics /\ AnalysesOnly
    \/ StartupStats(0) /\ AnalysesOnly
    \/ \E age \in LogAges : StartupLog(age) /\ AnalysesOnly
    \/ StartupPattern(IdsPatternDraw) /\ AnalysesOnly
    \/ \E tie \in TieOrders : StartupReadLogs(tie) /\ AnalysesOnly
    \/ \E draw \in RandomDraws : StartupAnalysis(draw) /\ AnalysesOnly
    \/ \E age \in LogAges : TickLog(age) /\ AnalysesOnly
    \/ \E draw \in RandomDraws : TickAnalysis(draw) /\ AnalysesOnly
    \/ TickMetrics /\ AnalysesOnly
    \/ TickFails /\ AnalysesOnly
    \/ Restart /\ AnalysesOnly

\* start-up, log ticks and a restart, over either store
SpecAnalyses == InitAnalyses /\ [][NextAnalyses]_vars

\* C25: after any sequence of start-ups, restarts over the store and log
\* ticks, no traffic log is referenced by more than one stored analysis
\* result, and no step changes an analysis result already stored.
C25_OneAnalysisPerLog ==
    /\ [](\A i, j \in 1..Len(aiAnalysisResults) :
            (i # j /\ aiAnalysisResults[i].trafficLogId # Null) =>
                aiAnalysisResults[i].trafficLogId # aiAnalysisResults[j].trafficLogId)
    /\ [][ (backend = "db" \/ routine'.restarts = routine.restarts) =>
             /\ Len(aiAnalysisResults') >= Len(aiAnalysisResults)
             /\ \A i \in 1..Len(aiAnalysisResults) :
                  aiAnalysisResults'[i] = aiAnalysisResults[i] ]_vars

====
